---- MODULE Spec2Model ----
(***************************************************************************)
(* Session engine of the Chess Vision Trainer: GameSession (puzzle loads,  *)
(* move classification, bad-move penalty, timeouts, delayed actions),      *)
(* StatusManager (tick interval, pause/resume by shifting epochs) and the  *)
(* entry points of ChessVisionTrainer that drive a session.                *)
(* Time is Date.now() in milliseconds.  chess.js is an external oracle: it *)
(* is represented by a small table of positions with their legal moves.    *)
(***************************************************************************)
EXTENDS Integers, Sequences, FiniteSets, TLC

VARIABLES
    now,                \* Date.now()
    config,             \* SessionConfig: goodMovesOnly, sequentialMode, timeLimit, timeMode
    puzzles,            \* GameSession.puzzles
    previouslySolvedIds,\* GameSession.previouslySolvedIds
    currentPuzzleIndex, \* GameSession.currentPuzzleIndex
    stats,              \* GameSession.stats
    game,               \* GameSession.game (live chess.js instance)
    foundMoves,         \* GameSession.foundMoves
    targets,            \* GameSession.targets
    currentStageIndex,  \* GameSession.currentStageIndex
    isDelayActive,      \* GameSession.isDelayActive
    timers,             \* GameSession.timers (registry of timeout ids)
    pending,            \* the browser's pending setTimeout callbacks
    nextId,             \* next id the browser's setTimeout/setInterval hands out
    sm,                 \* StatusManager: timerInterval, sessionStartTime, limitEndTime, isPaused, pauseStartTime
    ui,                 \* what the collaborators were told (task indicator, modal, results, saves)
    obs,                \* the last step taken: which handler ran, its outcome and the status it set
    history             \* per puzzle index: whether a move was attempted, it timed out, it was marked solved

vars == <<now, config, puzzles, previouslySolvedIds, currentPuzzleIndex, stats, game,
          foundMoves, targets, currentStageIndex, isDelayActive, timers, pending,
          nextId, sm, ui, obs, history>>

----------------------------------------------------------------------------
(* Bounds of the model *)

MaxClicks == 2          \* counted move attempts per session
MaxSeconds == 5         \* the clock stops advancing after this many seconds

MaxRestarts == 1        \* sessions started on top of an earlier one
MaxTime == MaxSeconds * 1000
TimeLimits == {0, 1}    \* config.timeLimit (seconds)

----------------------------------------------------------------------------
(* Program constants *)

MOVE_HIGHLIGHT == 300
BAD_MOVE_REFUTATION == 2000
PUZZLE_TRANSITION == 800
TIMEOUT_DISPLAY == 1000
SHAPE_UPDATE == 50
MS_PER_SECOND == 1000
TICK_INTERVAL == 1000

STAGES == << [id |-> "w-checks",   color |-> "w", type |-> "checks"],
             [id |-> "w-captures", color |-> "w", type |-> "captures"],
             [id |-> "b-checks",   color |-> "b", type |-> "checks"],
             [id |-> "b-captures", color |-> "b", type |-> "captures"] >>

----------------------------------------------------------------------------
(* The move oracle (chess.js), as a table.                                 *)
(* A move: color, from, to, san, flags ("c" capture, "e" en passant,       *)
(* "n" quiet, followed by "p" for a promotion), check (the opponent is in   *)
(* check after it).                                                        *)

Mv(c, f, t, s, fl, ch) ==
    [color |-> c, from |-> f, to |-> t, san |-> s, flags |-> fl, check |-> ch]

\* The flag letters of a move's flags string: flags.includes(x)
HasFlag(flags, x) ==
    x \in [n |-> {"n"}, c |-> {"c"}, e |-> {"e"}, cp |-> {"c", "p"}, np |-> {"n", "p"}][flags]

\* The positions: side to move, en-passant square and the pawn it takes, piece colours, the legal
\* moves of each colour when the side to move is forced to that colour, and
\* the colours for which the oracle refuses (throws on) the position with
\* that colour forced to move.
\* START is the position of a fresh Chess(): no check and no capture in it.
\* FEN1 and FEN2 are the puzzles' positions. FEN3 has a capture that promotes
\* (to a queen or a knight, two moves with one from-to pair) and an
\* en-passant capture; FEN4 cannot be set up with black to move.
Positions ==
    [ START |->
        [ turn   |-> "w", ep |-> "-", epPawn |-> "-", throws |-> {},
          pieces |-> [s \in {"a1", "d1", "e1"} |-> "w"] @@ [s \in {"a8", "d8", "e8"} |-> "b"],
          moves  |-> << >> ],
      FEN1 |->
        [ turn   |-> "w", ep |-> "-", epPawn |-> "-", throws |-> {},
          pieces |-> [s \in {"a1", "e1"} |-> "w"] @@ [s \in {"a7", "b8"} |-> "b"],
          moves  |-> << Mv("w", "a1", "a7", "Rxa7",  "c", FALSE),
                        Mv("w", "a1", "a8", "Ra8+",  "n", TRUE),
                        Mv("w", "e1", "e2", "Ke2",   "n", FALSE),
                        Mv("b", "b8", "c7", "Kc7",   "n", FALSE) >> ],
      FEN2 |->
        [ turn   |-> "b", ep |-> "-", epPawn |-> "-", throws |-> {},
          pieces |-> [s \in {"d1", "e1"} |-> "w"] @@ [s \in {"d8", "e8"} |-> "b"],
          moves  |-> << Mv("w", "d1", "d8", "Qxd8+", "c", TRUE),
                        Mv("b", "d8", "d1", "Qxd1+", "c", TRUE),
                        Mv("b", "d8", "d7", "Qd7",   "n", FALSE) >> ],
      FEN3 |->
        [ turn   |-> "w", ep |-> "d6", epPawn |-> "d5", throws |-> {},
          pieces |-> [s \in {"b7", "e5", "h1"} |-> "w"] @@ [s \in {"a8", "d5", "h8"} |-> "b"],
          moves  |-> << Mv("w", "b7", "a8", "bxa8=Q+", "cp", TRUE),
                        Mv("w", "b7", "a8", "bxa8=N",  "cp", FALSE),
                        Mv("w", "b7", "b8", "b8=Q+",   "np", TRUE),
                        Mv("w", "e5", "d6", "exd6",    "e",  FALSE),
                        Mv("w", "e5", "e6", "e6",      "n",  FALSE),
                        Mv("b", "a8", "a1", "Ra1+",    "n",  TRUE),
                        Mv("b", "d5", "d4", "d4",      "n",  FALSE) >> ],
      FEN4 |->
        [ turn   |-> "w", ep |-> "-", epPawn |-> "-", throws |-> {"b"},
          pieces |-> [s \in {"c1", "e1"} |-> "w"] @@ [s \in {"c8", "e8"} |-> "b"],
          moves  |-> << Mv("w", "c1", "c8", "Rxc8+", "c", TRUE),
                        Mv("w", "e1", "e2", "Ke2",   "n", FALSE) >> ] ]

OtherColor(c) == IF c = "w" THEN "b" ELSE "w"

\* A position reached in play: a table position and the moves applied to it.
StartPos(fen) == [base |-> fen, applied |-> <<>>]

RECURSIVE PiecesAfter(_, _, _)
PiecesAfter(pieces, applied, epPawn) ==
    IF applied = <<>> THEN pieces
    ELSE LET m == Head(applied)
             left == {m.from} \cup (IF HasFlag(m.flags, "e") THEN {epPawn} ELSE {})
             moved == [s \in (DOMAIN pieces \ left) \cup {m.to} |->
                          IF s = m.to THEN m.color ELSE pieces[s]]
         IN PiecesAfter(moved, Tail(applied), epPawn)

PosPieces(p) == PiecesAfter(Positions[p.base].pieces, p.applied, Positions[p.base].epPawn)

PosTurn(p) ==
    IF Len(p.applied) % 2 = 0 THEN Positions[p.base].turn
    ELSE OtherColor(Positions[p.base].turn)

\* Chess.get(square): the colour of the piece on the square, or "none".
ChessGet(p, sq) ==
    LET At(pc) == IF sq \in DOMAIN pc THEN pc[sq] ELSE "none"
    IN At(PosPieces(p))

\* The legal moves of colour c in position p; an en-passant capture is legal
\* only on the move after the double step, with the en-passant field kept.
LegalWith(p, c, epKept) ==
    LET Legal(pc) ==
          LET Ok(m) == /\ m.color = c
                       /\ m.from \in DOMAIN pc /\ pc[m.from] = c
                       /\ (m.to \in DOMAIN pc => pc[m.to] # c)
                       /\ (HasFlag(m.flags, "c") => (m.to \in DOMAIN pc /\ pc[m.to] # c))
                       /\ (HasFlag(m.flags, "e") =>
                              /\ epKept /\ p.applied = <<>>
                              /\ Positions[p.base].ep = m.to
                              /\ Positions[p.base].turn = c)
          IN SelectSeq(Positions[p.base].moves, Ok)
    IN Legal(PosPieces(p))

\* The legal moves of colour c in position p with c forced to move and the
\* en-passant field cleared.
LegalFor(p, c) == LegalWith(p, c, FALSE)

\* Chess.moves({verbose: true}) of the live game: the side to move only.
ChessMoves(g) == LegalWith(g.pos, PosTurn(g.pos), TRUE)

\* Chess.load(fen): a new position, the undo history is dropped. A string that
\* is no position is refused: load returns false and the game stays as it is.
ChessLoad(g, fen) ==
    IF fen \in DOMAIN Positions THEN [pos |-> StartPos(fen), hist |-> <<>>] ELSE g

\* Chess.move({from, to, promotion}): "ok" tells whether the move was legal.
ChessMove(g, orig, dest) ==
    LET Play(cands) ==
          IF cands = <<>> THEN [ok |-> FALSE, game |-> g]
          ELSE [ok |-> TRUE,
                game |-> [pos  |-> [base |-> g.pos.base,
                                    applied |-> Append(g.pos.applied, Head(cands))],
                          hist |-> Append(g.hist, g.pos)]]
    IN Play(SelectSeq(ChessMoves(g), LAMBDA m : m.from = orig /\ m.to = dest))

\* Chess.undo(): takes back the last move of the history, if there is one.
ChessUndo(g) ==
    IF g.hist = <<>> THEN g
    ELSE [pos |-> g.hist[Len(g.hist)], hist |-> SubSeq(g.hist, 1, Len(g.hist) - 1)]

\* Chess.fen(): the position as a value.
ChessFen(g) == g.pos

----------------------------------------------------------------------------
(* chess-utils.ts *)

getMoveKey(from, to) == from \o "-" \o to

\* A bad_moves entry: a plain string (kind "string", no refutation) or a
\* BadMove object (kind "object", with san and refutation).
BadStr(san) == [kind |-> "string", san |-> san, refutation |-> ""]
BadObj(san, ref) == [kind |-> "object", san |-> san, refutation |-> ref]

isBadMove(san, badMovesList) ==
    \E i \in 1..Len(badMovesList) : badMovesList[i].san = san

\* A faulty findBadMoveObj that matches BadMove objects but not plain strings.
findBadMoveObj_objectsOnly(san, badMovesList) ==
    LET First(hits) == IF hits = <<>> THEN [kind |-> "none"] ELSE Head(hits)
    IN First(SelectSeq(badMovesList, LAMBDA bm : bm.kind = "object" /\ bm.san = san))

\* Array.find: the first matching entry, or undefined ("none").
findBadMoveObj(san, badMovesList) ==
    LET First(hits) == IF hits = <<>> THEN [kind |-> "none"] ELSE Head(hits)
    IN First(SelectSeq(badMovesList, LAMBDA bm : bm.san = san))

\* A faulty map that keeps no entry for a from-to pair that occurs twice.
MoveMap_dropsRepeated(list) ==
    LET Key(i) == getMoveKey(list[i].from, list[i].to)
        once == {i \in 1..Len(list) : \A j \in 1..Len(list) : Key(j) = Key(i) => j = i}
    IN [k \in {Key(i) : i \in once} |-> list[CHOOSE i \in once : Key(i) = k]]

\* new Map(list.map(m => [key, m])): a later entry with the same key wins.
MoveMap(list) ==
    LET keys == {getMoveKey(list[i].from, list[i].to) : i \in 1..Len(list)}
        Last(k) == CHOOSE i \in 1..Len(list) :
                      /\ getMoveKey(list[i].from, list[i].to) = k
                      /\ \A j \in 1..Len(list) :
                            getMoveKey(list[j].from, list[j].to) = k => j <= i
    IN [k \in keys |-> list[Last(k)]]

\* new Chess(tokens.join(' ')): the scratch game on the position with the
\* side to move forced to color and the en-passant field cleared.
ScratchGame(fen, color) ==
    [pos |-> [base |-> fen.base, applied |-> fen.applied], turn |-> color, hist |-> <<>>]

\* tempGame.moves({verbose: true})
ScratchMoves(tempGame) == LegalFor(tempGame.pos, tempGame.turn)

\* tempGame.move(m)
ScratchMove(tempGame, m) ==
    [pos  |-> [tempGame.pos EXCEPT !.applied = Append(@, m)],
     turn |-> OtherColor(tempGame.turn),
     hist |-> Append(tempGame.hist, [pos |-> tempGame.pos, turn |-> tempGame.turn])]

\* tempGame.in_check(): the side to move is in check after the last move.
ScratchInCheck(tempGame) ==
    /\ tempGame.pos.applied # <<>>
    /\ tempGame.pos.applied[Len(tempGame.pos.applied)].check

\* tempGame.undo()
ScratchUndo(tempGame) ==
    IF tempGame.hist = <<>> THEN tempGame
    ELSE [pos  |-> tempGame.hist[Len(tempGame.hist)].pos,
          turn |-> tempGame.hist[Len(tempGame.hist)].turn,
          hist |-> SubSeq(tempGame.hist, 1, Len(tempGame.hist) - 1)]

\* The one element of a one-element set. The loop below binds each value it
\* carries to the next round through such a set, so that the value is computed
\* once.
Only(S) == CHOOSE x \in S : TRUE

RECURSIVE TestMoves(_, _, _, _)

\* A faulty test loop that leaves every tested move on the scratch board.
TestMoves_noUndo(tempGame, moves, checks, captures) ==
    IF moves = <<>>
    THEN [tempGame |-> tempGame, checks |-> checks, captures |-> captures]
    ELSE Only({ TestMoves(moved, rest,
                          IF ScratchInCheck(moved) THEN Append(ch, m) ELSE ch,
                          IF HasFlag(m.flags, "c") \/ HasFlag(m.flags, "e")
                          THEN Append(cp, m) ELSE cp) :
                  m \in {Head(moves)}, rest \in {Tail(moves)},
                  ch \in {checks}, cp \in {captures},
                  moved \in {ScratchMove(tempGame, Head(moves))} })

\* The body of the forEach over tempGame.moves(): the capture test on the
\* flags, then move, in_check, undo.
TestMoves(tempGame, moves, checks, captures) ==
    IF moves = <<>>
    THEN [tempGame |-> tempGame, checks |-> checks, captures |-> captures]
    ELSE Only({ TestMoves(undone, rest,
                          IF ScratchInCheck(moved) THEN Append(ch, m) ELSE ch,
                          IF HasFlag(m.flags, "c") \/ HasFlag(m.flags, "e")
                          THEN Append(cp, m) ELSE cp) :
                  m \in {Head(moves)}, rest \in {Tail(moves)},
                  ch \in {checks}, cp \in {captures},
                  moved \in {ScratchMove(tempGame, Head(moves))},
                  undone \in {ScratchUndo(ScratchMove(tempGame, Head(moves)))} })

\* The structures a failed analysis returns (the catch branch)
EmptyMoves ==
    [checks |-> <<>>, captures |-> <<>>, checksMap |-> MoveMap(<<>>), capturesMap |-> MoveMap(<<>>)]

getMovesForColor(fen, color) ==
    IF color \in Positions[fen.base].throws
    THEN EmptyMoves
    ELSE Only({ [checks |-> r.checks, captures |-> r.captures,
                 checksMap |-> MoveMap(r.checks), capturesMap |-> MoveMap(r.captures)] :
                  r \in { TestMoves(tempGame, ScratchMoves(tempGame), <<>>, <<>>) :
                            tempGame \in {ScratchGame(fen, color)} } })

\* A faulty analyzeTargets in which a failure for one colour fails the whole
\* analysis.
analyzeTargets_noCatch(fen) ==
    IF Positions[fen.base].throws # {}
    THEN [w |-> EmptyMoves, b |-> EmptyMoves]
    ELSE [w |-> getMovesForColor(fen, "w"), b |-> getMovesForColor(fen, "b")]

\* A faulty analyzeTargets that only looks at the side to move.
analyzeTargets_sideToMove(fen) ==
    [c \in {"w", "b"} |->
        IF c = PosTurn(fen) THEN getMovesForColor(fen, c)
        ELSE [checks |-> <<>>, captures |-> <<>>,
              checksMap |-> MoveMap(<<>>), capturesMap |-> MoveMap(<<>>)]]

analyzeTargets(fen) == [w |-> getMovesForColor(fen, "w"), b |-> getMovesForColor(fen, "b")]

----------------------------------------------------------------------------
(* The puzzles a session may be given *)

Puzzle(id, fen, bad) == [id |-> id, fen |-> fen, bad_moves |-> bad]

Catalogue ==
    { Puzzle(1, "FEN1", << BadObj("Rxa7", "Kxa7"), BadStr("Ke2") >>),
      Puzzle(0, "FEN2", << BadObj("Qxd1+", "Rxd1"), BadStr("Qxd8+") >>) }

\* A puzzle whose fen is no position
MalformedPuzzle == Puzzle(2, "MALFORMED", << >>)

\* Session lists with the malformed puzzle alone, or before or after a puzzle
\* of the catalogue.
MalformedLists ==
    { << MalformedPuzzle >> }
      \cup { << MalformedPuzzle, p >> : p \in Catalogue }
      \cup { << p, MalformedPuzzle >> : p \in Catalogue }

\* The replies the opponent can legally play after a bad move, by notation:
\* what refutationGame.move / moves() can match a refutation against.
Replies == [START |-> {}, FEN1 |-> {"Kxa7"}, FEN2 |-> {"Kxd1"}]

\* Session lists: distinct puzzles of the catalogue, in any order.
PuzzleLists ==
    UNION { { s \in [1..n -> Catalogue] : \A i, j \in 1..n : i # j => s[i] # s[j] }
            : n \in 1..Cardinality(Catalogue) }

\* timeMode only matters with a time limit.
Configs ==
    { c \in [goodMovesOnly : BOOLEAN, sequentialMode : BOOLEAN,
             timeLimit : TimeLimits, timeMode : {"total", "per_puzzle"}] :
        c.timeLimit = 0 => c.timeMode = "per_puzzle" }

\* puzzleProgress.getSolvedIds() at construction
SolvedIdSets == {{1}}

----------------------------------------------------------------------------
(* The program state as one record, so that a handler and the calls it     *)
(* makes compose as functions from state to state.                         *)

Cur ==
    [now |-> now, config |-> config, puzzles |-> puzzles,
     previouslySolvedIds |-> previouslySolvedIds,
     currentPuzzleIndex |-> currentPuzzleIndex, stats |-> stats, game |-> game,
     foundMoves |-> foundMoves, targets |-> targets,
     currentStageIndex |-> currentStageIndex, isDelayActive |-> isDelayActive,
     timers |-> timers, pending |-> pending, nextId |-> nextId, sm |-> sm,
     ui |-> ui, obs |-> obs, history |-> history]

Becomes(s) ==
    /\ now' = s.now /\ config' = s.config /\ puzzles' = s.puzzles
    /\ previouslySolvedIds' = s.previouslySolvedIds
    /\ currentPuzzleIndex' = s.currentPuzzleIndex /\ stats' = s.stats
    /\ game' = s.game /\ foundMoves' = s.foundMoves /\ targets' = s.targets
    /\ currentStageIndex' = s.currentStageIndex /\ isDelayActive' = s.isDelayActive
    /\ timers' = s.timers /\ pending' = s.pending /\ nextId' = s.nextId
    /\ sm' = s.sm /\ ui' = s.ui /\ obs' = s.obs /\ history' = s.history

\* What a step observed; every action starts from this and fills in its part.
NoLock == [at |-> 0, fen |-> StartPos("START"), limitEndTime |-> 0,
           sessionStartTime |-> 0, applied |-> FALSE]

\* op: the entry point or callback that ran; puzzle: the index it started on;
\* orig, dest: the squares _handleMove was called with;
\* kind, key, san, color: how _handleMove classified the move; moveStatus: the
\* status text it set for a new find; status: the last status text set; solved,
\* timeouts, loads, cancelled: what ran inside the step (cancelled counts the
\* timeouts destroy() cleared); lock, origin, delay: what the callback that ran
\* had captured when it was scheduled.
NoObs == [op |-> "none", orig |-> "", dest |-> "",
          kind |-> "", key |-> "", san |-> "", color |-> "",
          moveStatus |-> "", status |-> "", solved |-> FALSE, timeouts |-> 0,
          loads |-> 0, cancelled |-> 0, lock |-> NoLock, origin |-> 0, delay |-> 0,
          puzzle |-> 0]

----------------------------------------------------------------------------
(* StatusManager.ts *)

\* Math.ceil(a / b) for b > 0
Ceil(a, b) == IF a % b = 0 THEN a \div b ELSE (a \div b) + 1

NoInterval == [active |-> FALSE, due |-> 0, isCountdown |-> FALSE, onTimeout |-> FALSE]

stopTimer(s) == [s EXCEPT !.sm.timerInterval = NoInterval]

\* A faulty pauseTimer() without the "already paused" guard.
pauseTimer_unguarded(s) ==
    stopTimer([s EXCEPT !.sm.isPaused = TRUE, !.sm.pauseStartTime = s.now])

pauseTimer(s) ==
    IF s.sm.isPaused THEN s
    ELSE stopTimer([s EXCEPT !.sm.isPaused = TRUE, !.sm.pauseStartTime = s.now])

setSessionStartTime(s, t) == [s EXCEPT !.sm.sessionStartTime = t]

setLimitEndTime(s, t) == [s EXCEPT !.sm.limitEndTime = t]

\* Math.floor((endTime - sessionStartTime) / 1000)
getElapsedTime(s) ==
    LET endTime == IF s.sm.isPaused THEN s.sm.pauseStartTime ELSE s.now
    IN (endTime - s.sm.sessionStartTime) \div 1000

----------------------------------------------------------------------------
(* GameSession.ts: delayed actions *)

\* _setTimeout(fn, delay): the browser keeps the callback, the registry its id.
\* kind names fn; moveSuccessful and lock are what the closure captured;
\* puzzle is the index of the puzzle that was live when it was scheduled.
setTimeoutTracked(s, kind, delay, moveSuccessful, lock) ==
    [s EXCEPT !.pending = @ \cup {[id |-> s.nextId, due |-> s.now + delay, delay |-> delay,
                                   kind |-> kind, moveSuccessful |-> moveSuccessful,
                                   lock |-> lock, puzzle |-> s.currentPuzzleIndex]},
              !.timers = @ \cup {s.nextId},
              !.nextId = @ + 1]

\* _handleTimeout()
handleTimeout(s) ==
    LET Paused(p) ==
          IF s.config.timeMode = "total"
          THEN [p EXCEPT !.ui.timeoutModal = TRUE]
          ELSE setTimeoutTracked([p EXCEPT !.obs.status = "timeout"],
                                 "next", TIMEOUT_DISPLAY, FALSE, NoLock)
    IN Paused([pauseTimer(s) EXCEPT !.obs.timeouts = @ + 1,
                                    !.history.timedOut = @ \cup {s.currentPuzzleIndex}])

\* StatusManager.startTimer(isCountdown, onTimeout): clears the old interval,
\* runs update() once, then installs the new interval.
updateTick(s, isCountdown, onTimeout) ==
    IF isCountdown /\ Ceil(s.sm.limitEndTime - s.now, 1000) <= 0 /\ onTimeout
    THEN handleTimeout(stopTimer(s))
    ELSE s

startTimer(s, isCountdown, onTimeout) ==
    LET u == updateTick(stopTimer(s), isCountdown, onTimeout)
    IN [u EXCEPT !.sm.timerInterval =
            [active |-> TRUE, due |-> IF isCountdown THEN s.now + TICK_INTERVAL ELSE 0,
             isCountdown |-> isCountdown, onTimeout |-> onTimeout]]

resumeTimer(s, isCountdown, onTimeout) ==
    IF ~s.sm.isPaused THEN s
    ELSE LET Shifted(pauseDuration) ==
                   [s EXCEPT !.sm.limitEndTime =
                                 IF isCountdown THEN @ + pauseDuration ELSE @,
                             !.sm.sessionStartTime = @ + pauseDuration,
                             !.sm.isPaused = FALSE]
         IN startTimer(Shifted(s.now - s.sm.pauseStartTime), isCountdown, onTimeout)

\* destroy(): every registered timeout is cleared, the tick interval stopped.
\* A faulty destroy() that empties the registry without clearTimeout.
destroy_keepsTimeouts(s) ==
    [stopTimer([s EXCEPT !.timers = {}]) EXCEPT !.ui.boardAlive = FALSE]

destroy(s) ==
    [stopTimer([s EXCEPT !.pending = {t \in @ : t.id \notin s.timers},
                         !.timers = {},
                         !.obs.cancelled =
                             @ + Cardinality({t \in s.pending : t.id \in s.timers})])
       EXCEPT !.ui.boardAlive = FALSE]

----------------------------------------------------------------------------
(* GameSession.ts: helpers *)

EmptyTargets ==
    LET Both(e) == [w |-> e, b |-> e]
    IN Both([checks |-> <<>>, captures |-> <<>>,
             checksMap |-> MoveMap(<<>>), capturesMap |-> MoveMap(<<>>)])

ZeroStats ==
    [solvedCount |-> 0, newPuzzlesSolved |-> 0, totalClicks |-> 0, totalErrors |-> 0,
     totalMovesFound |-> 0, totalMovesAvailable |-> 0,
     wChecks |-> [found |-> 0, total |-> 0], wCaptures |-> [found |-> 0, total |-> 0],
     bChecks |-> [found |-> 0, total |-> 0], bCaptures |-> [found |-> 0, total |-> 0]]

\* this.puzzles[index] (index counts from 0)
PuzzleAt(s, index) == s.puzzles[index + 1]

HasPuzzle(s, index) == index >= 0 /\ index < Len(s.puzzles)

\* _isValidMove(move, badMovesList)
isValidMove(cfg, move, badMovesList) ==
    ~(cfg.goodMovesOnly /\ isBadMove(move.san, badMovesList))

\* _getCurrentBadMoves()
getCurrentBadMoves(s) ==
    IF HasPuzzle(s, s.currentPuzzleIndex)
    THEN PuzzleAt(s, s.currentPuzzleIndex).bad_moves ELSE <<>>

\* _countValidMoves(moves, badMovesList): distinct keys of the valid moves
countValidMoves(cfg, moves, badMovesList) ==
    Cardinality({getMoveKey(moves[i].from, moves[i].to) :
                   i \in {j \in 1..Len(moves) : isValidMove(cfg, moves[j], badMovesList)}})

\* The list of a stage: targets[stage.color].checks or .captures
StageList(tg, stage) ==
    IF stage.type = "checks" THEN tg[stage.color].checks ELSE tg[stage.color].captures

\* _updateGameUI(): the task indicator part
updateGameUI(s) ==
    [s EXCEPT !.ui.taskIndicator =
        IF s.config.sequentialMode /\ s.currentStageIndex < Len(STAGES)
        THEN STAGES[s.currentStageIndex + 1].id ELSE "hidden"]

\* A faulty _checkIfAllFound() that gathers the white lists only.
checkIfAllFound_whiteOnly(s) ==
    \A i \in 1..Len(s.targets.w.checks \o s.targets.w.captures) :
        LET m == (s.targets.w.checks \o s.targets.w.captures)[i]
        IN isValidMove(s.config, m, getCurrentBadMoves(s))
              => getMoveKey(m.from, m.to) \in s.foundMoves

\* _checkIfAllFound()
checkIfAllFound(s) ==
    LET Required(allTargets, badMovesList) ==
          {getMoveKey(allTargets[i].from, allTargets[i].to) :
             i \in {j \in 1..Len(allTargets) :
                      isValidMove(s.config, allTargets[j], badMovesList)}}
    IN \A req \in Required(s.targets.w.checks \o s.targets.w.captures
                            \o s.targets.b.checks \o s.targets.b.captures,
                            getCurrentBadMoves(s)) :
          req \in s.foundMoves

\* The solved bookkeeping shared by both completion paths: solvedCount++,
\* newPuzzlesSolved++ and markSolved under "if (puzzle?.id)", the transition.
markPuzzleSolved(s, statusText) ==
    LET Counted(id, truthy) ==
          [s EXCEPT !.obs.status = statusText,
                    !.stats.solvedCount = @ + 1,
                    !.stats.newPuzzlesSolved =
                        IF truthy /\ id \notin s.previouslySolvedIds THEN @ + 1 ELSE @,
                    !.ui.markCalls = IF truthy THEN @ + 1 ELSE @,
                    !.ui.marked = IF truthy THEN @ \cup {id} ELSE @,
                    !.obs.solved = TRUE,
                    !.history.solved = @ \cup {s.currentPuzzleIndex}]
        WithId(id) == Counted(id, HasPuzzle(s, s.currentPuzzleIndex) /\ id # 0)
    IN setTimeoutTracked(
         WithId(IF HasPuzzle(s, s.currentPuzzleIndex)
                THEN PuzzleAt(s, s.currentPuzzleIndex).id ELSE 0),
         "next", PUZZLE_TRANSITION, FALSE, NoLock)

\* A faulty loop that moves past one satisfied stage at most.
AdvanceStages_oneStep(s, idx) ==
    IF idx >= Len(STAGES) THEN idx
    ELSE LET Open(rawList, badMovesList) ==
                   \E i \in 1..Len(rawList) :
                       /\ isValidMove(s.config, rawList[i], badMovesList)
                       /\ getMoveKey(rawList[i].from, rawList[i].to) \notin s.foundMoves
         IN IF Open(StageList(s.targets, STAGES[idx + 1]), getCurrentBadMoves(s))
            THEN idx ELSE idx + 1

\* The while loop of _checkStageCompletion(): the first stage from idx on
\* that still has a required entry not found.
RECURSIVE AdvanceStages(_, _)
AdvanceStages(s, idx) ==
    IF idx >= Len(STAGES) THEN idx
    ELSE LET Done(rawList, valid) ==
                   Cardinality({i \in valid :
                       getMoveKey(rawList[i].from, rawList[i].to) \in s.foundMoves})
                     >= Cardinality(valid)
             Stage(rawList, badMovesList) ==
                   Done(rawList, {i \in 1..Len(rawList) :
                                    isValidMove(s.config, rawList[i], badMovesList)})
         IN IF Stage(StageList(s.targets, STAGES[idx + 1]), getCurrentBadMoves(s))
            THEN AdvanceStages(s, idx + 1) ELSE idx

\* _checkStageCompletion()
checkStageCompletion(s) ==
    LET Advanced(a) ==
          IF a.currentStageIndex >= Len(STAGES) THEN markPuzzleSolved(a, "solved") ELSE a
    IN Advanced(updateGameUI([s EXCEPT !.currentStageIndex =
                                           AdvanceStages(s, s.currentStageIndex)]))

\* A faulty accuracy without the "totalMovesAvailable > 0" test: 0/0 for a
\* session without targets.
accuracy_unguarded(totalMovesFound, totalMovesAvailable) ==
    [num |-> totalMovesFound * 100, den |-> totalMovesAvailable]

\* finish(): accuracy = totalMovesAvailable > 0
\*     ? (totalMovesFound / totalMovesAvailable) * 100 : 0, as the fraction
\* num / den (den = 0 stands for NaN).
accuracy(totalMovesFound, totalMovesAvailable) ==
    IF totalMovesAvailable > 0
    THEN [num |-> totalMovesFound * 100, den |-> totalMovesAvailable]
    ELSE [num |-> 0, den |-> 1]

\* finish()
finish(s) ==
    LET Results(d) ==
          [d EXCEPT !.ui.resultsShown = @ + 1,
                    !.ui.saved = @ + 1,
                    !.ui.results = [solved |-> d.stats.solvedCount,
                                    total |-> Len(d.puzzles),
                                    found |-> d.stats.totalMovesFound,
                                    available |-> d.stats.totalMovesAvailable,
                                    accuracy |-> accuracy(d.stats.totalMovesFound,
                                                          d.stats.totalMovesAvailable),
                                    time |-> getElapsedTime(d)]]
    IN Results(destroy(s))

\* _loadPuzzle(index)
loadPuzzle(s, index) ==
    IF index >= Len(s.puzzles) THEN finish(s)
    ELSE
      LET Timed(u) ==
            IF s.config.timeLimit > 0 /\ s.config.timeMode = "per_puzzle"
            THEN startTimer(setLimitEndTime(u, s.now + s.config.timeLimit * MS_PER_SECOND),
                            TRUE, TRUE)
            ELSE u
          Counted(g, tg, wChecksCount, wCapturesCount, bChecksCount, bCapturesCount) ==
            Timed(updateGameUI(
              [s EXCEPT !.game = g,
                        !.foundMoves = {},
                        !.targets = tg,
                        !.currentStageIndex = 0,
                        !.isDelayActive = FALSE,
                        !.stats.wChecks.total = @ + wChecksCount,
                        !.stats.wCaptures.total = @ + wCapturesCount,
                        !.stats.bChecks.total = @ + bChecksCount,
                        !.stats.bCaptures.total = @ + bCapturesCount,
                        !.stats.totalMovesAvailable =
                            @ + wChecksCount + wCapturesCount + bChecksCount + bCapturesCount,
                        !.obs.status = "luck",
                        !.obs.loads = @ + 1]))
          Analyzed(g, tg, badMovesList) ==
            Counted(g, tg,
                    countValidMoves(s.config, tg.w.checks, badMovesList),
                    countValidMoves(s.config, tg.w.captures, badMovesList),
                    countValidMoves(s.config, tg.b.checks, badMovesList),
                    countValidMoves(s.config, tg.b.captures, badMovesList))
          Loaded(g, badMovesList) == Analyzed(g, analyzeTargets(ChessFen(g)), badMovesList)
          Load(puzzle) == Loaded(ChessLoad(s.game, puzzle.fen), puzzle.bad_moves)
      IN Load(PuzzleAt(s, index))

\* A faulty nextPuzzle() that loads the puzzle at the index again.
nextPuzzle_noIncrement(s) == loadPuzzle(s, s.currentPuzzleIndex)

\* nextPuzzle()
nextPuzzle(s) ==
    loadPuzzle([s EXCEPT !.currentPuzzleIndex = @ + 1], s.currentPuzzleIndex + 1)

\* start()
start(s) ==
    LET Timed(a) ==
          IF s.config.timeLimit > 0 /\ s.config.timeMode = "total"
          THEN startTimer(setLimitEndTime(a, s.now + s.config.timeLimit * MS_PER_SECOND),
                          TRUE, TRUE)
          ELSE startTimer(a, FALSE, FALSE)
    IN loadPuzzle(Timed([setSessionStartTime(s, s.now) EXCEPT !.ui.boardAlive = TRUE]), 0)

----------------------------------------------------------------------------
(* GameSession.ts: the move handler and the bad-move penalty *)

\* Whether the scripted refutation can be matched to a legal reply.
refutationResolves(s, refutationSan) ==
    refutationSan \in Replies[s.game.pos.base]

\* A faulty penalty that gives up when the refutation cannot be shown: the
\* error status is set and nothing is scheduled.
handleBadMoveRefutation_returnsOnError(s, refutationSan, moveSuccessful, lock) ==
    LET Locked(a) == [pauseTimer([a EXCEPT !.isDelayActive = TRUE]) EXCEPT !.obs.status = "error"]
        Shown(a) ==
          setTimeoutTracked(
            setTimeoutTracked([a EXCEPT !.ui.shapes = TRUE], "shape", SHAPE_UPDATE, FALSE, NoLock),
            "resolve", BAD_MOVE_REFUTATION, moveSuccessful, lock)
    IN IF refutationSan = ""
       THEN setTimeoutTracked(Locked(s), "resolve", BAD_MOVE_REFUTATION, moveSuccessful, lock)
       ELSE IF refutationResolves(s, refutationSan)
       THEN Shown(Locked(s))
       ELSE [Locked(s) EXCEPT !.obs.status = "refutation_error"]

\* _handleBadMoveRefutation(refutationSan, playerColor, userMove, moveSuccessful)
\* lock is what the session looked like when the penalty began.
handleBadMoveRefutation(s, refutationSan, moveSuccessful, lock) ==
    LET Shown(a, hasShape) ==
          IF hasShape
          THEN setTimeoutTracked([a EXCEPT !.ui.shapes = TRUE],
                                 "shape", SHAPE_UPDATE, FALSE, NoLock)
          ELSE IF refutationSan # ""
          THEN [a EXCEPT !.obs.status = "refutation_error"]
          ELSE a
        Locked(a) == Shown(a, refutationSan # "" /\ refutationResolves(a, refutationSan))
    IN setTimeoutTracked(
         Locked([pauseTimer([s EXCEPT !.isDelayActive = TRUE]) EXCEPT !.obs.status = "error"]),
         "resolve", BAD_MOVE_REFUTATION, moveSuccessful, lock)

\* A faulty resolution that takes back the error along with the move.
resolveBadMove_refundsError(s, moveSuccessful) ==
    resumeTimer([s EXCEPT !.game = IF moveSuccessful THEN ChessUndo(@) ELSE @,
                          !.stats.totalErrors = @ - 1,
                          !.obs.status = "try_another",
                          !.isDelayActive = FALSE],
                s.config.timeLimit > 0, TRUE)

\* The callback scheduled at the end of _handleBadMoveRefutation
resolveBadMove(s, moveSuccessful) ==
    resumeTimer([s EXCEPT !.game = IF moveSuccessful THEN ChessUndo(@) ELSE @,
                          !.obs.status = "try_another",
                          !.isDelayActive = FALSE],
                s.config.timeLimit > 0, TRUE)

\* A faulty completion check that only sequential mode ever completes.
checkCompletion_sequentialOnly(s) ==
    IF s.config.sequentialMode THEN checkStageCompletion(s) ELSE s

\* The part of _handleMove after a new target was recorded: completion
checkCompletion(s) ==
    IF s.config.sequentialMode THEN checkStageCompletion(s)
    ELSE IF checkIfAllFound(s) THEN markPuzzleSolved(s, "done")
    ELSE s

\* A faulty SUCCESS part that counts a capture only when the move is no check.
recordFound_elseIf(s, moveKey, pieceColor, foundCheck, foundCapture, moveIsBad) ==
    checkCompletion(setTimeoutTracked(updateGameUI(
             [s EXCEPT
                !.foundMoves = @ \cup {moveKey},
                !.stats.totalMovesFound = @ + 1,
                !.stats.wChecks.found = IF foundCheck /\ pieceColor = "w" THEN @ + 1 ELSE @,
                !.stats.bChecks.found = IF foundCheck /\ pieceColor # "w" THEN @ + 1 ELSE @,
                !.stats.wCaptures.found = IF ~foundCheck /\ foundCapture /\ pieceColor = "w" THEN @ + 1 ELSE @,
                !.stats.bCaptures.found = IF ~foundCheck /\ foundCapture /\ pieceColor # "w" THEN @ + 1 ELSE @,
                !.obs.status = IF s.config.goodMovesOnly THEN "correct"
                              ELSE IF moveIsBad THEN "dangerous" ELSE "correct",
                !.obs.moveStatus = IF s.config.goodMovesOnly THEN "correct"
                                  ELSE IF moveIsBad THEN "dangerous" ELSE "correct",
                !.obs.kind = "found"]),
             "highlight", MOVE_HIGHLIGHT, FALSE, NoLock))

\* The SUCCESS part of _handleMove for a key not yet found
recordFound(s, moveKey, pieceColor, foundCheck, foundCapture, moveIsBad) ==
    checkCompletion(setTimeoutTracked(updateGameUI(
             [s EXCEPT
                !.foundMoves = @ \cup {moveKey},
                !.stats.totalMovesFound = @ + 1,
                !.stats.wChecks.found = IF foundCheck /\ pieceColor = "w" THEN @ + 1 ELSE @,
                !.stats.bChecks.found = IF foundCheck /\ pieceColor # "w" THEN @ + 1 ELSE @,
                !.stats.wCaptures.found = IF foundCapture /\ pieceColor = "w" THEN @ + 1 ELSE @,
                !.stats.bCaptures.found = IF foundCapture /\ pieceColor # "w" THEN @ + 1 ELSE @,
                !.obs.status = IF s.config.goodMovesOnly THEN "correct"
                              ELSE IF moveIsBad THEN "dangerous" ELSE "correct",
                !.obs.moveStatus = IF s.config.goodMovesOnly THEN "correct"
                                  ELSE IF moveIsBad THEN "dangerous" ELSE "correct",
                !.obs.kind = "found"]),
             "highlight", MOVE_HIGHLIGHT, FALSE, NoLock))

\* A faulty test that takes the bad-move branch in every mode.
takesBadBranch_ignoresMode(cfg, moveIsBad) == moveIsBad

\* Whether good-moves-only mode treats the move as a bad move
takesBadBranch(cfg, moveIsBad) == cfg.goodMovesOnly /\ moveIsBad

\* A faulty rejection that counts the click first.
rejectMove_countsClick(s, kind) ==
    [s EXCEPT !.obs.kind = kind, !.stats.totalClicks = @ + 1]

\* The early returns of _handleMove: board.undoVisual(...); return
rejectMove(s, kind) == [s EXCEPT !.obs.kind = kind]

\* A faulty test that never recognises a key as found before.
alreadyFound_never(s, moveKey) == FALSE

\* this.foundMoves.has(moveKey)
alreadyFound(s, moveKey) == moveKey \in s.foundMoves

\* _handleMove(orig, dest)
handleMove(s, orig, dest) ==
    LET moveKey == getMoveKey(orig, dest)
        clicked == [s EXCEPT !.stats.totalClicks = @ + 1, !.obs.key = moveKey]
        Refuted(r, san, piece, lock, refutationSan) ==
          handleBadMoveRefutation(
            [clicked EXCEPT !.stats.totalErrors = @ + 1,
                            !.game = r.game,
                            !.obs.kind = "bad",
                            !.obs.san = san,
                            !.obs.color = piece,
                            !.obs.lock = lock],
            refutationSan, r.ok, lock)
        Penalised(r, san, piece, badMoveObj) ==
          Refuted(r, san, piece,
                  [at |-> s.now, fen |-> ChessFen(s.game),
                   limitEndTime |-> s.sm.limitEndTime,
                   sessionStartTime |-> s.sm.sessionStartTime,
                   applied |-> r.ok],
                  IF badMoveObj.kind = "string" THEN "" ELSE badMoveObj.refutation)
        Classified(piece, foundCheck, foundCapture, san, badMoveObj) ==
          IF san = ""
            THEN rejectMove(s, "illegal")
          ELSE IF takesBadBranch(s.config, badMoveObj.kind # "none")
            THEN Penalised(ChessMove(s.game, orig, dest), san, piece, badMoveObj)
          ELSE IF ~(foundCheck \/ foundCapture)
            THEN [clicked EXCEPT !.obs.status = "wrong", !.obs.kind = "offTarget",
                                 !.obs.san = san, !.obs.color = piece]
          ELSE IF alreadyFound(s, moveKey)
            THEN [clicked EXCEPT !.obs.status = "already", !.obs.kind = "already",
                                 !.obs.san = san, !.obs.color = piece]
          ELSE recordFound([clicked EXCEPT !.obs.san = san, !.obs.color = piece],
                           moveKey, piece, foundCheck, foundCapture,
                           badMoveObj.kind # "none")
        Named(piece, foundCheck, foundCapture, san) ==
          Classified(piece, foundCheck, foundCapture, san,
                     findBadMoveObj(san, PuzzleAt(s, s.currentPuzzleIndex).bad_moves))
        Looked(piece, tColor, foundCheck, foundCapture, real) ==
          Named(piece, foundCheck, foundCapture,
                IF foundCheck THEN tColor.checksMap[moveKey].san
                ELSE IF foundCapture THEN tColor.capturesMap[moveKey].san
                ELSE IF real # <<>> THEN Head(real).san ELSE "")
        Keyed(piece, tColor) ==
          Looked(piece, tColor,
                 moveKey \in DOMAIN tColor.checksMap,
                 moveKey \in DOMAIN tColor.capturesMap,
                 SelectSeq(ChessMoves(s.game), LAMBDA m : m.from = orig /\ m.to = dest))
        Picked(piece) ==
          IF piece = "none"
            THEN rejectMove(s, "empty")
          ELSE Keyed(piece, s.targets[piece])
    IN
    IF s.config.timeLimit > 0 /\ s.now > s.sm.limitEndTime
      THEN rejectMove(s, "expired")
    ELSE IF s.isDelayActive
      THEN rejectMove(s, "locked")
    ELSE Picked(ChessGet(s.game.pos, orig))

----------------------------------------------------------------------------
(* The state machine *)

\* The moves a user may try: every from-to pair of the table, a drag from an
\* empty square and a drag no legal move matches.
UserMoves ==
    UNION { {<<Positions[f].moves[i].from, Positions[f].moves[i].to>> :
               i \in 1..Len(Positions[f].moves)} : f \in {q.fen : q \in Catalogue} }
    \cup { <<"e2", "e1">>, <<"e1", "e8">> }

Init ==
    /\ now = 0
    /\ config \in Configs
    /\ puzzles \in PuzzleLists
    /\ previouslySolvedIds \in SolvedIdSets
    /\ currentPuzzleIndex = 0
    /\ stats = ZeroStats
    /\ game = [pos |-> StartPos("START"), hist |-> <<>>]
    /\ foundMoves = {}
    /\ targets = EmptyTargets
    /\ currentStageIndex = 0
    /\ isDelayActive = FALSE
    /\ timers = {}
    /\ pending = {}
    /\ nextId = 1
    /\ sm = [timerInterval |-> NoInterval, sessionStartTime |-> 0, limitEndTime |-> 0,
             isPaused |-> FALSE, pauseStartTime |-> 0]
    /\ ui = [hasSession |-> FALSE, boardAlive |-> FALSE,
             taskIndicator |-> "hidden", timeoutModal |-> FALSE, shapes |-> FALSE,
             resultsShown |-> 0, saved |-> 0, markCalls |-> 0, marked |-> {},
             restarts |-> 0,
             results |-> [solved |-> 0, total |-> 0, found |-> 0, available |-> 0,
                         accuracy |-> [num |-> 0, den |-> 1], time |-> 0]]
    /\ obs = NoObs
    /\ history = [movedOn |-> {}, timedOut |-> {}, solved |-> {}]

\* A trainer whose puzzle set holds a malformed puzzle.
InitMalformed ==
    /\ now = 0
    /\ config \in Configs
    /\ puzzles \in MalformedLists
    /\ previouslySolvedIds \in SolvedIdSets
    /\ currentPuzzleIndex = 0
    /\ stats = ZeroStats
    /\ game = [pos |-> StartPos("START"), hist |-> <<>>]
    /\ foundMoves = {}
    /\ targets = EmptyTargets
    /\ currentStageIndex = 0
    /\ isDelayActive = FALSE
    /\ timers = {}
    /\ pending = {}
    /\ nextId = 1
    /\ sm = [timerInterval |-> NoInterval, sessionStartTime |-> 0, limitEndTime |-> 0,
             isPaused |-> FALSE, pauseStartTime |-> 0]
    /\ ui = [hasSession |-> FALSE, boardAlive |-> FALSE,
             taskIndicator |-> "hidden", timeoutModal |-> FALSE, shapes |-> FALSE,
             resultsShown |-> 0, saved |-> 0, markCalls |-> 0, marked |-> {},
             restarts |-> 0,
             results |-> [solved |-> 0, total |-> 0, found |-> 0, available |-> 0,
                         accuracy |-> [num |-> 0, den |-> 1], time |-> 0]]
    /\ obs = NoObs
    /\ history = [movedOn |-> {}, timedOut |-> {}, solved |-> {}]

Step(op) == [Cur EXCEPT !.obs = [NoObs EXCEPT !.op = op, !.puzzle = currentPuzzleIndex]]

\* ChessVisionTrainer.startSession(): the session is constructed and started.
StartSession ==
    /\ ~ui.hasSession
    /\ Becomes(start([Step("start") EXCEPT !.ui.hasSession = TRUE]))

\* The board reports a user move: _handleMove(orig, dest). The timeout prompt
\* is a modal dialog (showModal): the page behind it takes no input.
UserMove(orig, dest) ==
    /\ ui.hasSession /\ ui.boardAlive
    /\ ~ui.timeoutModal
    /\ stats.totalClicks < MaxClicks
    /\ Becomes(handleMove([Step("move") EXCEPT !.history.movedOn = @ \cup {currentPuzzleIndex},
                                                !.obs.orig = orig, !.obs.dest = dest],
                           orig, dest))

\* ChessVisionTrainer.giveUp(), from the give-up button of the page
GiveUp ==
    /\ ui.hasSession
    /\ ~ui.timeoutModal
    /\ currentPuzzleIndex <= Len(puzzles)
    /\ Becomes(nextPuzzle(Step("giveUp")))

\* ChessVisionTrainer.closeTimeoutModal()
CloseTimeoutModal ==
    /\ ui.hasSession /\ ui.timeoutModal
    /\ Becomes(finish([Step("closeModal") EXCEPT !.ui.timeoutModal = FALSE]))

\* The due times of the callbacks that are waiting: the tracked timeouts and
\* the next tick of a countdown interval. (A stopwatch tick only redraws the
\* display from the clock; it changes nothing and is not scheduled here.)
DueTimes ==
    {t.due : t \in pending}
    \cup (IF sm.timerInterval.active /\ sm.timerInterval.isCountdown
          THEN {sm.timerInterval.due} ELSE {})

\* The due times the clock is advanced to: the callbacks that change the
\* session. The redraw callbacks (highlight, shape) run on the way.
WakeTimes ==
    {t.due : t \in {x \in pending : x.kind \in {"next", "resolve"}}}
    \cup (IF sm.timerInterval.active /\ sm.timerInterval.isCountdown
          THEN {sm.timerInterval.due} ELSE {})

NothingDue == \A d \in DueTimes : d > now

\* A tick of the countdown interval installed by startTimer: update().
Tick ==
    /\ sm.timerInterval.active /\ sm.timerInterval.isCountdown
    /\ sm.timerInterval.due <= now
    /\ \A d \in DueTimes : sm.timerInterval.due <= d
    /\ Becomes(updateTick([Step("tick") EXCEPT !.sm.timerInterval.due = @ + TICK_INTERVAL],
                           sm.timerInterval.isCountdown, sm.timerInterval.onTimeout))

\* The callback of a tracked timeout: the wrapper of _setTimeout drops the id
\* from the registry, then runs fn.
runCallback(s, t) ==
    LET Run(w) ==
          CASE t.kind = "next" -> nextPuzzle(w)
            [] t.kind = "resolve" -> resolveBadMove(w, t.moveSuccessful)
            [] t.kind = "shape" -> [w EXCEPT !.ui.shapes = TRUE]
            [] t.kind = "highlight" -> w
    IN Run([s EXCEPT !.pending = @ \ {t}, !.timers = @ \ {t.id},
                     !.obs.lock = t.lock, !.obs.origin = t.puzzle, !.obs.delay = t.delay])

\* Timeouts run in the order of their due times; two that were set with the
\* same delay at the same time run in the order they were set.
FireTimeout(t) ==
    /\ t \in pending
    /\ t.due <= now
    /\ \A d \in DueTimes : t.due <= d
    /\ \A u \in pending : (u.due = t.due /\ u.delay = t.delay) => t.id <= u.id
    /\ Becomes(runCallback(Step(t.kind), t))

\* Time passes until the next callback is due.
Advance ==
    /\ ui.hasSession
    /\ NothingDue
    /\ WakeTimes # {}
    /\ LET To(next) == /\ next <= MaxTime
                        /\ Becomes([Step("advance") EXCEPT !.now = next])
       IN To(CHOOSE x \in WakeTimes : \A y \in WakeTimes : x <= y)

Next ==
    \/ StartSession
    \/ \E m \in UserMoves : UserMove(m[1], m[2])
    \/ GiveUp
    \/ CloseTimeoutModal
    \/ Tick
    \/ \E t \in pending : FireTimeout(t)
    \/ Advance

Spec == Init /\ [][Next]_vars

SpecMalformed == InitMalformed /\ [][Next]_vars

\* new GameSession(...): the fields the constructor sets; the StatusManager,
\* the clock and the browser's timers are those of the page. The game screen
\* replaces whatever the page showed.
Constructed(s, c, ps) ==
    [s EXCEPT !.config = c, !.puzzles = ps,
              !.currentPuzzleIndex = 0, !.stats = ZeroStats,
              !.game = [pos |-> StartPos("START"), hist |-> <<>>],
              !.foundMoves = {}, !.targets = EmptyTargets,
              !.currentStageIndex = 0, !.isDelayActive = FALSE, !.timers = {},
              !.ui = [@ EXCEPT !.taskIndicator = "hidden", !.timeoutModal = FALSE,
                               !.shapes = FALSE, !.resultsShown = 0, !.saved = 0,
                               !.markCalls = 0, !.marked = {},
                               !.results = [solved |-> 0, total |-> 0, found |-> 0,
                                            available |-> 0,
                                            accuracy |-> [num |-> 0, den |-> 1],
                                            time |-> 0],
                               !.restarts = @ + 1],
              !.history = [movedOn |-> {}, timedOut |-> {}, solved |-> {}]]

\* ChessVisionTrainer.startSession() while the trainer holds a session: the
\* old session is destroyed, a new one is constructed on the same
\* StatusManager and started.
StartAgain ==
    /\ ui.hasSession
    /\ ~ui.timeoutModal
    /\ ui.restarts < MaxRestarts
    /\ \E c \in {config}, ps \in {puzzles} :
          Becomes(start(Constructed(destroy(Step("restart")), c, ps)))

NextRestart == Next \/ StartAgain

\* A trainer whose sessions are of one puzzle
InitRestart == Init /\ Len(puzzles) = 1

SpecRestart == InitRestart /\ [][NextRestart]_vars

----------------------------------------------------------------------------
(* A StatusManager driven directly: a countdown started at time 0 is paused, *)
(* resumed and ticked in any order while time passes.                        *)

\* The deadlines the countdown is started with (ms)
StatusLimits == {1000, 3000}

\* How far the clock moves between two calls (ms)
WaitSteps == {300, 1000}

\* The timer's epochs as they are when a pause begins
Snap(s) == [at |-> s.now, fen |-> NoLock.fen, limitEndTime |-> s.sm.limitEndTime,
            sessionStartTime |-> s.sm.sessionStartTime, applied |-> FALSE]

\* Keeps obs.lock as the epochs of the pause that is in force after a call.
Noted(u, began) == [u EXCEPT !.obs.lock = IF u.sm.isPaused /\ began THEN Snap(u) ELSE @]

\* setSessionStartTime(0); setLimitEndTime(limit); startTimer(true, onTimeout)
InitStatus ==
    /\ now = 0
    /\ config = [goodMovesOnly |-> FALSE, sequentialMode |-> FALSE,
                 timeLimit |-> 1, timeMode |-> "total"]
    /\ puzzles = <<>>
    /\ previouslySolvedIds = {}
    /\ currentPuzzleIndex = 0
    /\ stats = ZeroStats
    /\ game = [pos |-> StartPos("START"), hist |-> <<>>]
    /\ foundMoves = {}
    /\ targets = EmptyTargets
    /\ currentStageIndex = 0
    /\ isDelayActive = FALSE
    /\ timers = {}
    /\ pending = {}
    /\ nextId = 1
    /\ \E limit \in StatusLimits, onTimeout \in BOOLEAN :
          sm = [timerInterval |-> [active |-> TRUE, due |-> TICK_INTERVAL,
                                   isCountdown |-> TRUE, onTimeout |-> onTimeout],
                sessionStartTime |-> 0, limitEndTime |-> limit,
                isPaused |-> FALSE, pauseStartTime |-> 0]
    /\ ui = [hasSession |-> FALSE, boardAlive |-> FALSE,
             taskIndicator |-> "hidden", timeoutModal |-> FALSE, shapes |-> FALSE,
             resultsShown |-> 0, saved |-> 0, markCalls |-> 0, marked |-> {},
             restarts |-> 0,
             results |-> [solved |-> 0, total |-> 0, found |-> 0, available |-> 0,
                         accuracy |-> [num |-> 0, den |-> 1], time |-> 0]]
    /\ obs = NoObs
    /\ history = [movedOn |-> {}, timedOut |-> {}, solved |-> {}]

\* The state a call starts from: obs names the call and keeps the noted pause.
Call(op) == [Cur EXCEPT !.obs = [NoObs EXCEPT !.op = op, !.lock = obs.lock]]

\* pauseTimer()
SMPause == Becomes(Noted(pauseTimer(Call("pauseTimer")), ~sm.isPaused))

\* resumeTimer(true, onTimeout)
SMResume(onTimeout) ==
    Becomes(Noted(resumeTimer(Call("resumeTimer"), TRUE, onTimeout), sm.isPaused))

\* The interval callback of startTimer: update()
SMTick ==
    /\ sm.timerInterval.active /\ sm.timerInterval.due <= now
    /\ Becomes(Noted(updateTick([Call("tick") EXCEPT !.sm.timerInterval.due = @ + TICK_INTERVAL],
                                 sm.timerInterval.isCountdown, sm.timerInterval.onTimeout),
                      ~sm.isPaused))

\* Time passes, up to the next tick of a running interval.
SMWait(d) ==
    /\ now + d <= MaxTime
    /\ sm.timerInterval.active => now < sm.timerInterval.due
    /\ Becomes([Call("wait") EXCEPT !.now =
                    IF sm.timerInterval.active /\ sm.timerInterval.due < now + d
                    THEN sm.timerInterval.due ELSE now + d])

NextStatus ==
    \/ SMPause
    \/ \E onTimeout \in BOOLEAN : SMResume(onTimeout)
    \/ SMTick
    \/ \E d \in WaitSteps : SMWait(d)

SpecStatus == InitStatus /\ [][NextStatus]_vars

----------------------------------------------------------------------------
(* The target analyzer driven directly: a live game is loaded with any      *)
(* position, moves are played on it and taken back, and analyzeTargets is   *)
(* called on its fen() at any time.                                         *)

\* Moves played on the live game before it is analysed
MaxPlies == 2

\* The from-to pairs of every move of every position
AnalyzerMoves ==
    UNION { {<<Positions[f].moves[i].from, Positions[f].moves[i].to>> :
               i \in 1..Len(Positions[f].moves)} : f \in DOMAIN Positions }

\* A fresh Chess() and no analysis yet.
InitAnalyzer ==
    /\ now = 0
    /\ config = [goodMovesOnly |-> FALSE, sequentialMode |-> FALSE,
                 timeLimit |-> 0, timeMode |-> "per_puzzle"]
    /\ puzzles = <<>>
    /\ previouslySolvedIds = {}
    /\ currentPuzzleIndex = 0
    /\ stats = ZeroStats
    /\ game = [pos |-> StartPos("START"), hist |-> <<>>]
    /\ foundMoves = {}
    /\ targets = EmptyTargets
    /\ currentStageIndex = 0
    /\ isDelayActive = FALSE
    /\ timers = {}
    /\ pending = {}
    /\ nextId = 1
    /\ sm = [timerInterval |-> NoInterval, sessionStartTime |-> 0, limitEndTime |-> 0,
             isPaused |-> FALSE, pauseStartTime |-> 0]
    /\ ui = [hasSession |-> FALSE, boardAlive |-> FALSE,
             taskIndicator |-> "hidden", timeoutModal |-> FALSE, shapes |-> FALSE,
             resultsShown |-> 0, saved |-> 0, markCalls |-> 0, marked |-> {},
             restarts |-> 0,
             results |-> [solved |-> 0, total |-> 0, found |-> 0, available |-> 0,
                         accuracy |-> [num |-> 0, den |-> 1], time |-> 0]]
    /\ obs = NoObs
    /\ history = [movedOn |-> {}, timedOut |-> {}, solved |-> {}]

\* game.load(fen)
AnLoad(fen) == Becomes([Call("load") EXCEPT !.game = ChessLoad(game, fen)])

\* game.move({from, to})
AnMove(orig, dest) ==
    /\ Len(game.hist) < MaxPlies
    /\ ChessMove(game, orig, dest).ok
    /\ Becomes([Call("play") EXCEPT !.game = ChessMove(game, orig, dest).game])

\* game.undo()
AnUndo ==
    /\ game.hist # <<>>
    /\ Becomes([Call("undo") EXCEPT !.game = ChessUndo(game)])

\* The name of an analysis step: "analyzeAgain" when the targets held are
\* already the analysis of the live position.
AnalyzeOp == IF obs.op \in {"analyze", "analyzeAgain"} THEN "analyzeAgain" ELSE "analyze"

\* A faulty analysis that works on the live game: it loads the base position
\* into it, so the moves played are lost.
AnAnalyze_onLiveGame ==
    Becomes([Call(AnalyzeOp) EXCEPT !.game = ChessLoad(game, game.pos.base),
                                    !.targets = analyzeTargets(ChessFen(game))])

\* targets = analyzeTargets(game.fen())
AnAnalyze == Becomes([Call(AnalyzeOp) EXCEPT !.targets = analyzeTargets(ChessFen(game))])

NextAnalyzer ==
    \/ \E fen \in DOMAIN Positions : AnLoad(fen)
    \/ \E m \in AnalyzerMoves : AnMove(m[1], m[2])
    \/ AnUndo
    \/ AnAnalyze

SpecAnalyzer == InitAnalyzer /\ [][NextAnalyzer]_vars

----------------------------------------------------------------------------
(* Properties *)

\* The elements of a sequence
Range(s) == {s[i] : i \in 1..Len(s)}

\* The bad_moves list of the live puzzle
CurrentBadMoves == getCurrentBadMoves(Cur)

\* A target is excluded only in good-moves-only mode, when its SAN is a bad move.
Excluded(m) == config.goodMovesOnly /\ isBadMove(m.san, CurrentBadMoves)

\* Every non-excluded target of the list has its from-to key in foundMoves.
ListFound(list) ==
    \A i \in 1..Len(list) :
        Excluded(list[i]) \/ getMoveKey(list[i].from, list[i].to) \in foundMoves

AllListsFound ==
    \A c \in {"w", "b"} : ListFound(targets[c].checks) /\ ListFound(targets[c].captures)

\* C1: solvedCount grows only by one, and only in a step after which every
\* non-excluded target of the four lists is in foundMoves and, in sequential
\* mode, currentStageIndex has reached 4.
C1_SolvedOnlyWhenComplete ==
    [][stats'.solvedCount # stats.solvedCount =>
          /\ stats'.solvedCount = stats.solvedCount + 1
          /\ AllListsFound'
          /\ (config.sequentialMode => currentStageIndex' = Len(STAGES))]_vars

\* A puzzle with an excluded target was just solved in sequential mode.
C1_Witness ==
    /\ obs.solved /\ config.sequentialMode /\ config.goodMovesOnly
    /\ currentStageIndex = Len(STAGES)
    /\ \E c \in {"w", "b"} : \E i \in 1..Len(targets[c].captures) :
          Excluded(targets[c].captures[i])

\* The status timer is paused: the flag is set and no tick interval is running.
TimerPaused == sm.isPaused /\ ~sm.timerInterval.active

\* The step was _handleMove taking the bad-move branch.
BadMoveStep == obs'.op = "move" /\ obs'.kind = "bad"

\* The step was the callback that ends a bad-move penalty.
ResolveStep == obs'.op = "resolve"

\* C2: in good-moves-only mode the step that handles a bad move locks input,
\* pauses the timer and adds one to totalErrors; the callback scheduled for
\* BAD_MOVE_REFUTATION later unlocks input, resumes the timer and leaves the
\* live game in the position it had before the bad move.
C2_BadMovePenalty ==
    [][ /\ BadMoveStep =>
              /\ isDelayActive'
              /\ TimerPaused'
              /\ stats'.totalErrors = stats.totalErrors + 1
        /\ ResolveStep =>
              /\ now' = obs'.lock.at + BAD_MOVE_REFUTATION
              /\ ~isDelayActive'
              /\ (~sm'.isPaused \/ obs'.timeouts > 0)
              /\ sm'.timerInterval.active
              /\ ChessFen(game') = obs'.lock.fen ]_vars

\* A bad move was just handled while the countdown interval was still running.
C2_Witness ==
    /\ obs.op = "move" /\ obs.kind = "bad" /\ isDelayActive
    /\ sm.timerInterval.active /\ sm.timerInterval.isCountdown

\* C3: when a penalty ends, the countdown has as much time left as when the
\* penalty began, and sessionStartTime has moved by the length of the penalty.
C3_PenaltyShiftsEpochs ==
    [][ ResolveStep =>
          /\ (config.timeLimit > 0 =>
                 sm'.limitEndTime - now' = obs'.lock.limitEndTime - obs'.lock.at)
          /\ sm'.sessionStartTime = obs'.lock.sessionStartTime + (now' - obs'.lock.at) ]_vars

\* A penalty just ended on the puzzle it began on, with sessionStartTime moved
\* by more than the penalty lasted.
C3_Witness ==
    /\ obs.op = "resolve" /\ obs.origin = obs.puzzle
    /\ sm.sessionStartTime > obs.lock.sessionStartTime + (now - obs.lock.at)

PerPuzzleCountdown == config.timeLimit > 0 /\ config.timeMode = "per_puzzle"

\* The step was the transition callback that _handleTimeout scheduled.
TimeoutTransitionStep == obs'.op = "next" /\ obs'.delay = TIMEOUT_DISPLAY

\* C4: with a per-puzzle countdown, on a puzzle no move was tried on,
\* _handleTimeout runs once, leaves solvedCount alone, and the transition it
\* schedules runs TIMEOUT_DISPLAY later and leaves currentPuzzleIndex one past
\* the puzzle that timed out.
C4_TimeoutAdvancesOnce ==
    [][ PerPuzzleCountdown =>
          /\ (obs'.timeouts > 0 /\ obs'.puzzle \notin history'.movedOn) =>
                /\ obs'.timeouts = 1
                /\ obs'.puzzle \notin history.timedOut
                /\ stats'.solvedCount = stats.solvedCount
          /\ (TimeoutTransitionStep /\ obs'.origin \notin history'.movedOn) =>
                /\ stats'.solvedCount = stats.solvedCount
                /\ currentPuzzleIndex' = obs'.origin + 1 ]_vars

\* The transition of a timed-out puzzle no move was tried on just ran and
\* left currentPuzzleIndex two past that puzzle.
C4_Witness ==
    /\ PerPuzzleCountdown
    /\ obs.op = "next" /\ obs.delay = TIMEOUT_DISPLAY
    /\ obs.origin \notin history.movedOn
    /\ currentPuzzleIndex = obs.origin + 2

\* destroy() has run on the session (directly or through finish()).
Destroyed == ui.hasSession /\ ~ui.boardAlive

\* C5: the registry holds exactly the ids of the pending delayed actions, and
\* once the session is destroyed the registry is empty, no delayed action is
\* pending any more (so none can run) and the tick interval is stopped.
C5_DestroyCancelsAll ==
    /\ timers = {t.id : t \in pending}
    /\ Destroyed => /\ timers = {}
                    /\ pending = {}
                    /\ ~sm.timerInterval.active

\* A destroy() just cancelled delayed actions that were still pending.
C5_Witness == Destroyed /\ obs.cancelled > 0 /\ pending = {}

PendingResolves == {t \in pending : t.kind = "resolve"}

\* C6: at most one bad-move resolution callback is pending, and while one is
\* pending _handleMove classifies no move.
C6_OnePenaltyAtATime ==
    [][ /\ Cardinality(PendingResolves') <= 1
        /\ (PendingResolves # {} /\ obs'.op = "move") =>
              obs'.kind \in {"locked", "expired"} ]_vars

\* Two bad-move resolution callbacks are pending at once.
C6_Witness == Cardinality(PendingResolves) = 2

\* What _loadPuzzle leaves the found counters and the session counters as.
FoundCounters(st) ==
    <<st.solvedCount, st.newPuzzlesSolved, st.totalClicks, st.totalErrors,
      st.totalMovesFound, st.wChecks.found, st.wCaptures.found,
      st.bChecks.found, st.bCaptures.found>>

\* The per-puzzle state is as _loadPuzzle leaves it.
FreshPuzzle ==
    /\ foundMoves = {}
    /\ currentStageIndex = 0
    /\ ~isDelayActive
    /\ game.pos = StartPos(PuzzleAt(Cur, currentPuzzleIndex).fen)
    /\ targets = [w |-> getMovesForColor(ChessFen(game), "w"),
                  b |-> getMovesForColor(ChessFen(game), "b")]

\* C7: a step that loads a puzzle leaves the per-puzzle state fresh, keeps
\* every counter but the totals, and lets the totals only grow; the
\* per-puzzle state stays fresh until a move is tried on the puzzle.
C7_LoadResetsPuzzleState ==
    /\ []((ui.boardAlive /\ currentPuzzleIndex \notin history.movedOn) => FreshPuzzle)
    /\ [][ obs'.loads > 0 =>
              /\ FreshPuzzle'
              /\ FoundCounters(stats') = FoundCounters(stats)
              /\ stats'.totalMovesAvailable >= stats.totalMovesAvailable
              /\ stats'.wChecks.total >= stats.wChecks.total
              /\ stats'.wCaptures.total >= stats.wCaptures.total
              /\ stats'.bChecks.total >= stats.bChecks.total
              /\ stats'.bCaptures.total >= stats.bCaptures.total ]_vars

\* A give-up during a penalty just loaded the next puzzle, which has targets
\* for both colours, after moves had been found and errors made.
C7_Witness ==
    /\ obs.op = "giveUp" /\ obs.loads = 1 /\ currentPuzzleIndex = 1
    /\ stats.totalErrors > 0
    /\ targets.w.checks # <<>> /\ targets.b.checks # <<>>
    /\ PendingResolves # {}

\* The move _handleMove classified has a SAN that is a bad_moves entry.
ClassifiedBad == obs'.op = "move" /\ obs'.san # "" /\ isBadMove(obs'.san, CurrentBadMoves)

\* C8: in good-moves-only mode a classified move whose SAN is a bad_moves
\* entry takes the bad-move branch and leaves foundMoves and every found
\* counter alone; no excluded target's key is ever in foundMoves.
C8_BadMoveNeverFound ==
    [][ config.goodMovesOnly =>
          /\ ClassifiedBad =>
                /\ obs'.kind = "bad"
                /\ isDelayActive'
                /\ foundMoves' = foundMoves
                /\ stats'.totalMovesFound = stats.totalMovesFound
                /\ stats'.wChecks.found = stats.wChecks.found
                /\ stats'.wCaptures.found = stats.wCaptures.found
                /\ stats'.bChecks.found = stats.bChecks.found
                /\ stats'.bCaptures.found = stats.bCaptures.found
          /\ \A c \in {"w", "b"} :
                \A m \in Range(targets'[c].checks) \cup Range(targets'[c].captures) :
                    isBadMove(m.san, CurrentBadMoves')
                        => getMoveKey(m.from, m.to) \notin foundMoves' ]_vars

\* A bad move that is also a target (check and capture) was just penalised.
C8_Witness ==
    /\ config.goodMovesOnly /\ obs.op = "move" /\ obs.kind = "bad"
    /\ obs.key \in DOMAIN targets[obs.color].checksMap
    /\ obs.key \in DOMAIN targets[obs.color].capturesMap

\* C9: with goodMovesOnly off no penalty ever starts (isDelayActive false,
\* totalErrors 0, no resolution callback); a target with a bad SAN is
\* recorded as found with the dangerous status when new, and a non-target
\* with a bad SAN is rejected as off-target.
C9_NormalModeNeverPenalises ==
    [][ ~config.goodMovesOnly =>
          /\ ~isDelayActive' /\ stats'.totalErrors = 0 /\ PendingResolves' = {}
          /\ ClassifiedBad =>
                LET isTarget == obs'.key \in DOMAIN targets[obs'.color].checksMap
                                \/ obs'.key \in DOMAIN targets[obs'.color].capturesMap
                IN IF ~isTarget
                     THEN obs'.kind = "offTarget" /\ foundMoves' = foundMoves
                   ELSE IF obs'.key \in foundMoves
                     THEN obs'.kind = "already" /\ foundMoves' = foundMoves
                   ELSE /\ obs'.kind = "found"
                        /\ obs'.moveStatus = "dangerous"
                        /\ foundMoves' = foundMoves \cup {obs'.key} ]_vars

\* In normal mode a target with a bad SAN was just recorded as found.
C9_Witness ==
    /\ ~config.goodMovesOnly /\ obs.op = "move" /\ obs.kind = "found"
    /\ obs.moveStatus = "dangerous" /\ obs.key \in foundMoves
    /\ isBadMove(obs.san, CurrentBadMoves)

\* 1 when the condition holds, else 0
Bit(b) == IF b THEN 1 ELSE 0

\* C10: a newly found target adds its key to foundMoves and one to
\* totalMovesFound, one to the checks counter of the mover's colour when the
\* key is in checksMap, one to its captures counter when the key is in
\* capturesMap, and nothing to the other colour's counters.
C10_FoundCountsEachCategory ==
    [][ (obs'.op = "move" /\ obs'.kind = "found") =>
          LET c == obs'.color
              o == OtherColor(obs'.color)
              inChecks == obs'.key \in DOMAIN targets[c].checksMap
              inCaptures == obs'.key \in DOMAIN targets[c].capturesMap
              checksOf(st, x) == IF x = "w" THEN st.wChecks.found ELSE st.bChecks.found
              capturesOf(st, x) == IF x = "w" THEN st.wCaptures.found ELSE st.bCaptures.found
          IN /\ obs'.key \notin foundMoves
             /\ inChecks \/ inCaptures
             /\ foundMoves' = foundMoves \cup {obs'.key}
             /\ stats'.totalMovesFound = stats.totalMovesFound + 1
             /\ checksOf(stats', c) = checksOf(stats, c) + Bit(inChecks)
             /\ capturesOf(stats', c) = capturesOf(stats, c) + Bit(inCaptures)
             /\ checksOf(stats', o) = checksOf(stats, o)
             /\ capturesOf(stats', o) = capturesOf(stats, o) ]_vars

\* A move that is both a check and a capture was just found for the first time.
C10_Witness ==
    /\ obs.op = "move" /\ obs.kind = "found"
    /\ obs.key \in DOMAIN targets[obs.color].checksMap
    /\ obs.key \in DOMAIN targets[obs.color].capturesMap
    /\ stats.totalMovesFound = 1

\* The step was a _handleMove call that got past the deadline, lock, piece and
\* legality checks.
ClassifiedStep == obs'.op = "move" /\ obs'.kind \in {"bad", "offTarget", "already", "found"}

\* C11 (original): a target move whose key is already in foundMoves leaves
\* every SessionStats counter, foundMoves and currentStageIndex as they were
\* and triggers no completion and no transition.
C11_AlreadyFoundChangesNothing ==
    [][ (ClassifiedStep /\ obs'.key \in foundMoves) =>
          /\ stats' = stats
          /\ foundMoves' = foundMoves
          /\ currentStageIndex' = currentStageIndex
          /\ ~obs'.solved /\ obs'.loads = 0
          /\ pending' = pending ]_vars

\* C11: a target move whose key is already in foundMoves is answered with
\* "already found"; it adds one to totalClicks and leaves every other
\* SessionStats counter, foundMoves and currentStageIndex as they were, and
\* it triggers no completion, no transition and no other delayed action.
C11_AlreadyFoundOnlyCountsClick ==
    [][ (ClassifiedStep /\ obs'.key \in foundMoves) =>
          /\ obs'.kind = "already"
          /\ stats' = [stats EXCEPT !.totalClicks = @ + 1]
          /\ foundMoves' = foundMoves
          /\ currentStageIndex' = currentStageIndex
          /\ ~obs'.solved /\ obs'.loads = 0
          /\ pending' = pending ]_vars

\* A target that had been found was just played again.
C11_Witness ==
    /\ obs.op = "move" /\ obs.kind = "already"
    /\ obs.key \in foundMoves /\ stats.totalClicks = 2 /\ stats.totalMovesFound = 1

\* The from-to keys of the non-excluded targets of a list
ListKeys(list) ==
    {getMoveKey(list[i].from, list[i].to) : i \in {j \in 1..Len(list) : ~Excluded(list[j])}}

\* The keys the live puzzle requires: the non-excluded targets of all four lists
RequiredKeys ==
    UNION {ListKeys(targets[c].checks) \cup ListKeys(targets[c].captures) : c \in {"w", "b"}}

\* The next-puzzle loads the step scheduled
ScheduledLoads == {t \in pending' \ pending : t.kind = "next"}

\* C12: in free mode the classified move that plays the last required key not
\* yet found is recorded as found, marks the puzzle solved (solvedCount +1,
\* totalMovesFound +1, one more key in foundMoves) and schedules exactly one
\* next-puzzle load, PUZZLE_TRANSITION later; a puzzle that requires a single
\* key is complete with foundMoves of size 1.
C12_LastTargetCompletes ==
    [][ (~config.sequentialMode /\ ClassifiedStep /\ RequiredKeys \ foundMoves = {obs'.key}) =>
          /\ obs'.kind = "found" /\ obs'.solved
          /\ stats'.solvedCount = stats.solvedCount + 1
          /\ stats'.totalMovesFound = stats.totalMovesFound + 1
          /\ foundMoves' = foundMoves \cup {obs'.key}
          /\ Cardinality(ScheduledLoads) = 1
          /\ \A t \in ScheduledLoads :
                t.delay = PUZZLE_TRANSITION /\ t.due = now + PUZZLE_TRANSITION
          /\ (Cardinality(RequiredKeys) = 1 => Cardinality(foundMoves') = 1) ]_vars

\* In free mode the only required key of a puzzle was just found and the
\* transition to the next puzzle is pending.
C12_Witness ==
    /\ ~config.sequentialMode /\ obs.op = "move" /\ obs.kind = "found" /\ obs.solved
    /\ Cardinality(RequiredKeys) = 1 /\ Cardinality(foundMoves) = 1
    /\ stats.totalMovesFound = 1 /\ stats.solvedCount = 1
    /\ \E t \in pending : t.kind = "next" /\ t.due = now + PUZZLE_TRANSITION

\* The stages whose non-excluded targets are not all in foundMoves (from 0)
OpenStages == {i \in 0..(Len(STAGES) - 1) : ~ListFound(StageList(targets, STAGES[i + 1]))}

\* The smallest open stage, or 4 when every stage is satisfied
FirstOpenStage ==
    IF OpenStages = {} THEN Len(STAGES)
    ELSE CHOOSE i \in OpenStages : \A j \in OpenStages : i <= j

\* What the task indicator shows for the current stage
StageIndicator ==
    IF currentStageIndex < Len(STAGES) THEN STAGES[currentStageIndex + 1].id ELSE "hidden"

\* C13: in sequential mode, after every newly found target currentStageIndex
\* is the smallest stage whose non-excluded targets are not all found (4 if
\* none); it never decreases while the same puzzle is live; and the task
\* indicator always shows the stage of currentStageIndex (hidden at 4).
C13_StageIsFirstOpenStage ==
    /\ []((config.sequentialMode /\ ui.hasSession) => ui.taskIndicator = StageIndicator)
    /\ [][ config.sequentialMode =>
              /\ (obs'.op = "move" /\ obs'.kind = "found") =>
                    currentStageIndex' = FirstOpenStage'
              /\ obs'.loads = 0 => currentStageIndex' >= currentStageIndex ]_vars

\* In sequential mode a move that is both a white check and a white capture
\* was just found, and the indicator names the black-checks stage.
C13_Witness ==
    /\ config.sequentialMode /\ obs.op = "move" /\ obs.kind = "found"
    /\ stats.totalMovesFound = 1
    /\ currentStageIndex = 2 /\ ui.taskIndicator = "b-checks"

\* The deadline has passed: timeLimit > 0 and Date.now() > limitEndTime
DeadlinePassed == config.timeLimit > 0 /\ now > sm.limitEndTime

\* The colour of the piece on the origin square of the move the step tried
MoverColor == ChessGet(game.pos, obs'.orig)

\* Neither a target of the mover's colour nor a legal move of the live game
\* goes from the origin to the destination of the move the step tried.
NoSuchMove ==
    /\ MoverColor # "none"
    /\ getMoveKey(obs'.orig, obs'.dest) \notin DOMAIN targets[MoverColor].checksMap
    /\ getMoveKey(obs'.orig, obs'.dest) \notin DOMAIN targets[MoverColor].capturesMap
    /\ \A i \in 1..Len(ChessMoves(game)) :
          ~(ChessMoves(game)[i].from = obs'.orig /\ ChessMoves(game)[i].to = obs'.dest)

\* The move the step tried meets one of the four reasons for rejection.
MustReject == DeadlinePassed \/ isDelayActive \/ MoverColor = "none" \/ NoSuchMove

\* C14: a _handleMove call made after the deadline, while input is locked,
\* from an empty square or for a from-to pair with no move is rejected: the
\* counters (totalClicks too), foundMoves, currentStageIndex, isDelayActive,
\* the live position and the timer are unchanged and nothing is scheduled.
C14_RejectedMoveChangesNothing ==
    [][ (obs'.op = "move" /\ MustReject) =>
          /\ obs'.kind \in {"expired", "locked", "empty", "illegal"}
          /\ stats' = stats
          /\ foundMoves' = foundMoves
          /\ currentStageIndex' = currentStageIndex
          /\ isDelayActive' = isDelayActive
          /\ game' = game
          /\ sm' = sm
          /\ pending' = pending /\ timers' = timers ]_vars

\* After a counted click, a drag of a piece along no move was just rejected.
C14_Witness ==
    /\ obs.op = "move" /\ obs.kind = "illegal"
    /\ ChessGet(game.pos, obs.orig) # "none"
    /\ stats.totalClicks = 1

\* C15: every _handleMove call made while the deadline has not passed and
\* input is not locked adds one to totalClicks, whatever its outcome, illegal
\* attempts included.
C15_EveryAttemptCountsClick ==
    [][ (obs'.op = "move" /\ ~DeadlinePassed /\ ~isDelayActive) =>
          stats'.totalClicks = stats.totalClicks + 1 ]_vars

\* With time left and input unlocked, an attempt along no move was just
\* rejected and no click has been counted.
C15_Witness ==
    /\ obs.op = "move" /\ obs.kind = "illegal"
    /\ ~isDelayActive /\ ~(config.timeLimit > 0 /\ now > sm.limitEndTime)
    /\ stats.totalClicks = 0

\* The four (colour, category) lists of the live puzzle's targets
CategoryLists ==
    [wChecks |-> targets.w.checks, wCaptures |-> targets.w.captures,
     bChecks |-> targets.b.checks, bCaptures |-> targets.b.captures]

\* Every category has all of its non-excluded keys in foundMoves.
EveryCategoryComplete ==
    \A cat \in DOMAIN CategoryLists :
        Cardinality(ListKeys(CategoryLists[cat]) \cap foundMoves)
            = Cardinality(ListKeys(CategoryLists[cat]))

\* C16: a puzzle load adds to each per-category total the number of distinct
\* non-excluded keys of that category, and the live puzzle has been marked
\* solved exactly when every category has that many of its keys in foundMoves.
C16_TotalsAreWhatCompletionRequires ==
    /\ []( ui.boardAlive => (currentPuzzleIndex \in history.solved <=> EveryCategoryComplete) )
    /\ [][ obs'.loads > 0 =>
              \A cat \in DOMAIN CategoryLists :
                  stats'[cat].total = stats[cat].total + Cardinality(ListKeys(CategoryLists[cat])') ]_vars

\* In good-moves-only mode a move was tried on a puzzle whose targets are all
\* excluded: every category is complete and the puzzle is not marked solved.
C16_Witness ==
    /\ ui.boardAlive /\ config.goodMovesOnly
    /\ RequiredKeys = {} /\ EveryCategoryComplete
    /\ currentPuzzleIndex \in history.movedOn
    /\ currentPuzzleIndex \notin history.solved

TotalCountdown == config.timeLimit > 0 /\ config.timeMode = "total"

\* finish() ran in the step: the results were displayed and the session saved.
FinishRan == ui'.resultsShown # ui.resultsShown \/ ui'.saved # ui.saved

Elapsed == getElapsedTime(Cur)

\* C18: pauseTimer() of a running countdown at t1 and resumeTimer(true, cb)
\* at t2 move limitEndTime and sessionStartTime forward by t2 - t1, so the
\* remaining time is the same at resume as at pause; getElapsedTime() keeps
\* the value it had at t1 while paused and at the resume; pauseTimer() while
\* paused and resumeTimer() while not paused change nothing.
C18_PauseResumeShiftsByPause ==
    /\ [](sm.isPaused => Elapsed = (obs.lock.at - obs.lock.sessionStartTime) \div 1000)
    /\ [][  /\ (obs'.op = "pauseTimer" /\ ~sm.isPaused) =>
                  /\ sm' = [sm EXCEPT !.isPaused = TRUE, !.pauseStartTime = now,
                                       !.timerInterval = NoInterval]
                  /\ Elapsed' = Elapsed
            /\ (obs'.op = "pauseTimer" /\ sm.isPaused) => sm' = sm
            /\ (obs'.op = "resumeTimer" /\ ~sm.isPaused) => sm' = sm
            /\ (obs'.op = "resumeTimer" /\ sm.isPaused) =>
                  /\ sm'.limitEndTime = obs.lock.limitEndTime + (now - obs.lock.at)
                  /\ sm'.sessionStartTime = obs.lock.sessionStartTime + (now - obs.lock.at)
                  /\ sm'.limitEndTime - now = obs.lock.limitEndTime - obs.lock.at
                  /\ Elapsed' = Elapsed ]_vars

\* A countdown that was paused for 1.3 s in the middle of a second was just
\* resumed, after an earlier pause and resume.
C18_Witness ==
    /\ obs.op = "resumeTimer" /\ ~sm.isPaused
    /\ sm.timerInterval.active /\ sm.timerInterval.isCountdown
    /\ sm.sessionStartTime > now - obs.lock.at
    /\ now - obs.lock.at = 1300
    /\ obs.lock.at % 1000 # 0

\* finish() has just reported a number in [0,100] that is the percentage of
\* the session's available targets that were found.
ReportedPercentage ==
    /\ ui'.results.accuracy.den > 0
    /\ 0 <= ui'.results.accuracy.num
    /\ ui'.results.accuracy.num <= 100 * ui'.results.accuracy.den
    /\ stats'.totalMovesAvailable > 0 =>
          ui'.results.accuracy.num * stats'.totalMovesAvailable
            = 100 * stats'.totalMovesFound * ui'.results.accuracy.den

\* C19 as stated: the accuracy reported by finish() lies in [0,100] and is 0
\* if and only if totalMovesAvailable is 0.
C19_AccuracyZeroIffNothingAvailable ==
    [][ui'.resultsShown > ui.resultsShown =>
          /\ ReportedPercentage
          /\ ui'.results.accuracy.num = 0 <=> stats'.totalMovesAvailable = 0]_vars

\* C19: the accuracy reported by finish() is a number in [0,100], and it is 0
\* if and only if totalMovesAvailable is 0 or totalMovesFound is 0.
C19_AccuracyZeroIffNothingFound ==
    [][ui'.resultsShown > ui.resultsShown =>
          /\ ReportedPercentage
          /\ ui'.results.accuracy.num = 0 <=>
                (stats'.totalMovesAvailable = 0 \/ stats'.totalMovesFound = 0)]_vars

\* A session finished with targets available and none of them found.
C19_Witness ==
    /\ ui.resultsShown > 0
    /\ ui.results.available > 0
    /\ ui.results.found = 0
    /\ ui.results.accuracy.num = 0

\* The puzzle at the session's index has a fen that is no position.
OnMalformedPuzzle ==
    /\ currentPuzzleIndex < Len(puzzles)
    /\ puzzles[currentPuzzleIndex + 1].fen \notin DOMAIN Positions

NoTargets(tg) ==
    /\ tg.w.checks = <<>> /\ tg.w.captures = <<>>
    /\ tg.b.checks = <<>> /\ tg.b.captures = <<>>

\* C20: when a puzzle's fen fails to load the session skips to the next puzzle:
\* a live session never rests on the failed puzzle, loading it sets no targets
\* and adds nothing to the totals, and every move that is classified is classified
\* in the position of the session's current puzzle.
C20_MalformedPuzzleIsSkipped ==
    /\ []((ui.hasSession /\ ui.boardAlive) => ~OnMalformedPuzzle)
    /\ [][ /\ (obs'.loads > 0 /\ OnMalformedPuzzle') =>
                 /\ NoTargets(targets')
                 /\ stats'.totalMovesAvailable = stats.totalMovesAvailable
           /\ ClassifiedStep => game.pos.base = puzzles[currentPuzzleIndex + 1].fen ]_vars

\* The session rests on the malformed second puzzle with the first puzzle's
\* position on the board, its targets counted a second time, and a move of
\* the user accepted as found there.
C20_Witness ==
    /\ ui.hasSession /\ ui.boardAlive
    /\ currentPuzzleIndex = 1 /\ OnMalformedPuzzle
    /\ game.pos.base = puzzles[1].fen
    /\ stats.totalMovesAvailable > 0
    /\ obs.op = "move" /\ obs.kind = "found"

\* The refutation scripted for the bad move of this step ("" for a plain
\* string entry).
ScriptedRefutation ==
    LET Of(b) == IF b.kind = "object" THEN b.refutation ELSE ""
    IN Of(findBadMoveObj(obs'.san, CurrentBadMoves))

\* The callbacks this step scheduled
Scheduled(kind) == {t \in pending' \ pending : t.kind = kind}

\* The step that starts a penalty schedules its resolution for
\* BAD_MOVE_REFUTATION later, whatever the refutation is; a refutation that no
\* legal reply matches sets the error status and draws nothing; the resolution
\* runs on time, unlocks input and leaves the tick interval running.
PenaltyCompletesOnSchedule ==
    /\ BadMoveStep =>
          /\ isDelayActive'
          /\ Cardinality(Scheduled("resolve")) = 1
          /\ \A t \in Scheduled("resolve") : t.due = now + BAD_MOVE_REFUTATION
          /\ IF ScriptedRefutation = ""
               THEN obs'.status = "error" /\ Scheduled("shape") = {} /\ ui'.shapes = ui.shapes
             ELSE IF ScriptedRefutation \in Replies[game.pos.base]
               THEN obs'.status = "error" /\ Scheduled("shape") # {} /\ ui'.shapes
             ELSE obs'.status = "refutation_error"
                      /\ Scheduled("shape") = {} /\ ui'.shapes = ui.shapes
    /\ ResolveStep =>
          /\ now' = obs'.lock.at + BAD_MOVE_REFUTATION
          /\ ~isDelayActive'
          /\ sm'.timerInterval.active

TimeoutInvoked == obs'.timeouts > 0

\* C22: once update() has invoked onTimeout no tick interval is left running,
\* also when the deadline had already been reached at the startTimer or
\* resumeTimer call, so that onTimeout runs at most once per call; and a tick
\* invokes onTimeout exactly when the clock has reached limitEndTime.
C22_TimeoutInvokedOnce ==
    [][ /\ TimeoutInvoked => ~sm'.timerInterval.active
        /\ obs'.op = "tick" =>
              (TimeoutInvoked <=>
                 (sm.timerInterval.onTimeout /\ now >= sm.limitEndTime)) ]_vars

\* A tick has invoked onTimeout although the timer was already paused by an
\* earlier invocation: onTimeout ran a second time for one resumeTimer call.
C22_Witness ==
    /\ obs.op = "tick" /\ obs.timeouts > 0
    /\ sm.isPaused /\ obs.lock.at < now
    /\ ui.timeoutModal

\* The analysis of the live game's position was just taken.
Analyzed == obs.op \in {"analyze", "analyzeAgain"}

\* The colours for which the oracle sets up the live position with that
\* colour to move
Buildable == {c \in {"w", "b"} : c \notin Positions[game.pos.base].throws}

\* The oracle's answers for colour c in the live position: the scratch game,
\* its legal moves, and whether the opponent is in check after move m.
Scratch(c) == ScratchGame(ChessFen(game), c)

OracleMoves(c) == LegalFor(ChessFen(game), c)

OracleCheckAfter(c, m) == ScratchInCheck(ScratchMove(Scratch(c), m))

\* C23: for every position and colour the oracle accepts, the checks are
\* exactly the legal moves of the colour (forced to move, en passant cleared)
\* after which the opponent is in check, the captures exactly those with a
\* "c" or "e" flag, and the scratch game is the same before and after the
\* test of each move.
C23_TargetsAreChecksAndCaptures ==
    Analyzed =>
      \A c \in Buildable :
        /\ targets[c].checks =
              SelectSeq(OracleMoves(c), LAMBDA m : OracleCheckAfter(c, m))
        /\ targets[c].captures =
              SelectSeq(OracleMoves(c),
                        LAMBDA m : HasFlag(m.flags, "c") \/ HasFlag(m.flags, "e"))
        /\ \A i \in 1..Len(OracleMoves(c)) :
              /\ ScratchUndo(ScratchMove(Scratch(c), OracleMoves(c)[i])) = Scratch(c)
              /\ TestMoves(Scratch(c), SubSeq(OracleMoves(c), 1, i), <<>>, <<>>).tempGame
                    = Scratch(c)

\* The position with the promoting capture and the en-passant square was
\* analysed: both queen promotions are checks, the promoting captures are the only
\* captures, and the en-passant capture the live game allows is not a target.
C23_Witness ==
    /\ Analyzed /\ game.pos = StartPos("FEN3")
    /\ Len(targets.w.checks) = 2
    /\ Len(targets.w.captures) = 2
    /\ \A i \in 1..2 : targets.w.captures[i].flags = "cp"
    /\ Len(targets.b.checks) = 1 /\ targets.b.captures = <<>>
    /\ \E i \in 1..Len(ChessMoves(game)) : ChessMoves(game)[i].flags = "e"

\* The from-to keys of the moves of a list
KeysOf(list) == {getMoveKey(list[i].from, list[i].to) : i \in 1..Len(list)}

\* The maps of a result hold exactly the keys of its lists.
MapsMatchLists(r) ==
    /\ DOMAIN r.checksMap = KeysOf(r.checks)
    /\ DOMAIN r.capturesMap = KeysOf(r.captures)
    /\ \A k \in DOMAIN r.checksMap : r.checksMap[k] \in Range(r.checks)
    /\ \A k \in DOMAIN r.capturesMap : r.capturesMap[k] \in Range(r.captures)

\* C24: for each colour the keys of checksMap are the from-to keys of checks
\* and the keys of capturesMap those of captures, in the targets held at any
\* time and in every result of getMovesForColor, the empty one included.
C24_MapKeysAreListKeys ==
    \A c \in {"w", "b"} :
      /\ MapsMatchLists(targets[c])
      /\ MapsMatchLists(getMovesForColor(ChessFen(game), c))

\* The targets hold two captures with one from-to pair (one map entry for
\* two list entries), and the other colour's result is the empty one.
C24_Witness ==
    /\ Len(targets.w.captures) = 2
    /\ Cardinality(DOMAIN targets.w.capturesMap) = 1
    /\ Positions[game.pos.base].throws = {"b"}
    /\ getMovesForColor(ChessFen(game), "b") = EmptyMoves

\* C25: when the oracle refuses the position with colour c forced to move,
\* the analysis returns the empty lists and maps for c and the normally
\* computed ones for the other colour.
C25_FailedColourIsEmpty ==
    Analyzed =>
      \A c \in {"w", "b"} :
        IF c \in Buildable
        THEN /\ targets[c].checks =
                  SelectSeq(OracleMoves(c), LAMBDA m : OracleCheckAfter(c, m))
             /\ targets[c].captures =
                  SelectSeq(OracleMoves(c),
                            LAMBDA m : HasFlag(m.flags, "c") \/ HasFlag(m.flags, "e"))
             /\ MapsMatchLists(targets[c])
        ELSE /\ targets[c].checks = <<>> /\ targets[c].captures = <<>>
             /\ DOMAIN targets[c].checksMap = {} /\ DOMAIN targets[c].capturesMap = {}

\* The position that cannot be set up with black to move was analysed:
\* black's targets are empty, white's capture with check is found.
C25_Witness ==
    /\ Analyzed /\ "b" \notin Buildable
    /\ targets.b = EmptyMoves
    /\ Len(targets.w.checks) = 1 /\ Len(targets.w.captures) = 1
    /\ "c1-c8" \in DOMAIN targets.w.checksMap

\* The from-to keys of every list and map of an analysis
KeyMembership(tg) ==
    [c \in {"w", "b"} |->
        << KeysOf(tg[c].checks), KeysOf(tg[c].captures),
           DOMAIN tg[c].checksMap, DOMAIN tg[c].capturesMap >>]

Counters(st) ==
    << st.solvedCount, st.newPuzzlesSolved, st.totalClicks, st.totalErrors,
       st.totalMovesFound, st.totalMovesAvailable,
       st.wChecks.found, st.wChecks.total, st.wCaptures.found, st.wCaptures.total,
       st.bChecks.found, st.bChecks.total, st.bCaptures.found, st.bCaptures.total >>

\* C27: no step of a session makes any counter of SessionStats smaller.
C27_CountersNeverDecrease ==
    [][ \A before \in {Counters(stats)}, after \in {Counters(stats')} :
            \A i \in DOMAIN before : after[i] >= before[i] ]_vars

\* A session of two puzzles that has finished after a penalty, a found move
\* and a solved puzzle.
C27_Witness ==
    /\ ui.resultsShown > 0
    /\ stats.totalErrors > 0 /\ stats.totalClicks > 1
    /\ stats.totalMovesFound > 0 /\ stats.solvedCount > 0
    /\ stats.totalMovesAvailable > 0 /\ Len(puzzles) = 2

\* The id of the puzzle the session is on
CurrentId == puzzles[currentPuzzleIndex + 1].id

\* The step counted the current puzzle as solved.
SolvedStep == obs'.solved /\ stats'.solvedCount = stats.solvedCount + 1

\* C28: a step that counts a puzzle as solved calls markSolved once, with the
\* puzzle's id whatever integer it is, and adds one to newPuzzlesSolved exactly
\* when the id was not solved before the session.
C28_SolvedPuzzleIsMarked ==
    [][ SolvedStep =>
          /\ ui'.markCalls = ui.markCalls + 1
          /\ ui'.marked = ui.marked \cup {CurrentId}
          /\ stats'.newPuzzlesSolved =
                stats.newPuzzlesSolved + Bit(CurrentId \notin previouslySolvedIds) ]_vars

\* The puzzle with id 0, not solved before the session, was just counted as
\* solved: nothing was marked and no new puzzle was counted.
C28_Witness ==
    /\ obs.solved /\ stats.solvedCount = 1
    /\ CurrentId = 0 /\ 0 \notin previouslySolvedIds
    /\ ui.markCalls = 0 /\ ui.marked = {}
    /\ stats.newPuzzlesSolved = 0

\* C29: the session's index only ever moves to the next puzzle, a load puts
\* the puzzle at the session's index on the board, and a delayed next-puzzle
\* action scheduled while puzzle k was live leaves the session at most on
\* puzzle k + 1.
C29_PuzzlesLoadedInOrder ==
    [][ /\ currentPuzzleIndex' # currentPuzzleIndex =>
               currentPuzzleIndex' = currentPuzzleIndex + 1
        /\ obs'.loads > 0 =>
               /\ obs'.loads = 1
               /\ game'.pos = StartPos(puzzles[currentPuzzleIndex' + 1].fen)
               /\ obs'.op = "start" \/ currentPuzzleIndex' = currentPuzzleIndex + 1
        /\ obs'.op = "next" => currentPuzzleIndex' <= obs'.origin + 1 ]_vars

\* The transition scheduled when the first puzzle was solved has run after a
\* give-up had already moved the session on: the session is two past it.
C29_Witness ==
    /\ obs.op = "next" /\ obs.delay = PUZZLE_TRANSITION
    /\ obs.origin = 0 /\ 0 \in history.solved
    /\ currentPuzzleIndex = 2

\* A puzzle is on the board and the session waits for the player's move: no
\* penalty holds the input, no timeout modal is open and no transition
\* scheduled by a per-puzzle timeout is waiting.
AwaitingMove ==
    /\ ui.hasSession /\ ui.boardAlive /\ ~ui.timeoutModal
    /\ currentPuzzleIndex < Len(puzzles)
    /\ ~isDelayActive
    /\ \A t \in pending : ~(t.kind = "next" /\ t.delay = TIMEOUT_DISPLAY)

\* C30: while a puzzle is live and awaiting a move the StatusManager is not
\* paused, so getElapsedTime() follows the clock, and the pauseTimer() of a
\* penalty entered from such a state stops the tick interval and records the
\* time of the pause; this covers the puzzle loaded after a per-puzzle timeout
\* and the puzzle loaded while a penalty was pending.
C30_LivePuzzleIsNotPaused ==
    /\ [](AwaitingMove => /\ ~sm.isPaused
                           /\ Elapsed = (now - sm.sessionStartTime) \div 1000)
    /\ [][ (AwaitingMove /\ obs'.op = "move" /\ isDelayActive') =>
               /\ ~sm'.timerInterval.active
               /\ sm'.isPaused /\ sm'.pauseStartTime = now ]_vars

\* The puzzle that a per-puzzle timeout's transition has just loaded awaits a
\* move with its countdown running and the StatusManager still paused since
\* the timeout.
C30_Witness ==
    /\ obs.op = "next" /\ obs.delay = TIMEOUT_DISPLAY /\ obs.loads = 1
    /\ AwaitingMove
    /\ sm.timerInterval.active /\ sm.limitEndTime > now
    /\ sm.isPaused /\ sm.pauseStartTime < now

\* C31: a session started on top of an earlier one begins with the timer not
\* paused and with every delayed action of the earlier session cancelled, and
\* from then on getElapsedTime() is not negative and measures the time since
\* the new session's start, whatever state the earlier session was left in.
C31_NewSessionStartsUnpaused ==
    /\ [][ obs'.op = "restart" =>
               /\ ~sm'.isPaused
               /\ sm'.sessionStartTime = now'
               /\ Elapsed' = 0
               /\ pending' \cap pending = {} ]_vars
    /\ []( ui.restarts > 0 => Elapsed >= 0 )
    /\ []( (ui.restarts > 0 /\ AwaitingMove) =>
               Elapsed = (now - sm.sessionStartTime) \div 1000 )

\* A new session has just been started after one that a timeout or a penalty
\* had left paused some time before.
C31_Witness ==
    /\ obs.op = "restart" /\ obs.loads = 1
    /\ ui.restarts = 1 /\ ui.boardAlive
    /\ sm.isPaused /\ sm.pauseStartTime < now
    /\ sm.sessionStartTime = now

\* The delayed actions of the earlier session are all cancelled by the
\* restart, whatever the earlier session had pending.
C31_PreviousActionsCancelled ==
    [][ obs'.op = "restart" =>
           /\ pending' \cap pending = {}
           /\ obs'.cancelled = Cardinality(pending) ]_vars

\* finish() has run in this session.
Finished == ui.resultsShown > 0

\* C32: the results are shown and the session is saved at most once, and
\* after finish() no puzzle is loaded and no counter of SessionStats changes,
\* whatever is invoked afterwards (give-up, closing the timeout prompt).
C32_FinishedOnce ==
    /\ []( ui.resultsShown <= 1 /\ ui.saved <= 1 )
    /\ [][ Finished => (obs'.loads = 0 /\ stats' = stats) ]_vars

\* A give-up after the session had finished has run finish() a second time.
C32_Witness ==
    /\ obs.op = "giveUp"
    /\ ui.resultsShown = 2 /\ ui.saved = 2
    /\ currentPuzzleIndex > Len(puzzles)

\* C33: with a per-puzzle countdown, a puzzle that was counted as solved is
\* never timed out: _handleTimeout does not run between the solve and the
\* load of the next puzzle.
C33_SolvedPuzzleNeverTimesOut ==
    /\ []( config.timeMode = "per_puzzle" => history.solved \cap history.timedOut = {} )
    /\ [][ ( /\ config.timeMode = "per_puzzle"
              /\ currentPuzzleIndex \in history.solved
              /\ currentPuzzleIndex' = currentPuzzleIndex ) => obs'.timeouts = 0 ]_vars

\* The countdown of a solved puzzle has expired before its transition ran:
\* the puzzle is counted as solved and timed out, and two loads of the next
\* puzzle are waiting.
C33_Witness ==
    /\ config.timeMode = "per_puzzle" /\ config.timeLimit > 0
    /\ obs.op = "tick" /\ obs.timeouts = 1
    /\ currentPuzzleIndex \in history.solved \cap history.timedOut
    /\ Cardinality({t \in pending : t.kind = "next"}) = 2

\* The position of the puzzle the session is on
PuzzlePos == StartPos(puzzles[currentPuzzleIndex + 1].fen)

\* C34: while a puzzle is on the board, the live game is at the puzzle's
\* position whenever input is unlocked; during a penalty it is at that
\* position or one applied bad move away from it.
C34_UnlockedBoardShowsPuzzle ==
    []( (ui.boardAlive /\ currentPuzzleIndex < Len(puzzles)) =>
          /\ ~isDelayActive => game.pos = PuzzlePos
          /\ isDelayActive =>
                 /\ game.pos.base = PuzzlePos.base
                 /\ Len(game.pos.applied) <= 1
                 /\ game.pos.applied # <<>> => game.hist = << PuzzlePos >> )

\* The resolution callback of an abandoned puzzle's penalty has unlocked the
\* input while a later puzzle's bad move, played at a later time, is still on
\* the board.
C34_Witness ==
    /\ ui.boardAlive /\ currentPuzzleIndex < Len(puzzles)
    /\ obs.op = "resolve" /\ obs.origin < currentPuzzleIndex
    /\ ~isDelayActive /\ Len(game.pos.applied) = 1
    /\ \E t \in pending : t.kind = "resolve" /\ t.due > now

\* C35: in sequential mode, whenever the session awaits a move (also right
\* after a load), currentStageIndex is the first stage with an unfound
\* required target, and the stage the task indicator names has something
\* left to find.
C35_StageHasSomethingLeft ==
    []( (config.sequentialMode /\ AwaitingMove) =>
          /\ currentStageIndex = FirstOpenStage
          /\ ui.taskIndicator # "hidden" =>
                 /\ ui.taskIndicator = StageIndicator
                 /\ currentStageIndex \in OpenStages )

\* A puzzle has just been loaded in sequential mode and the indicator names
\* the first stage although that stage requires nothing.
C35_Witness ==
    /\ config.sequentialMode /\ AwaitingMove
    /\ obs.loads = 1 /\ foundMoves = {}
    /\ currentStageIndex = 0 /\ ui.taskIndicator = "w-checks"
    /\ 0 \notin OpenStages

\* The user can play a required target of the live puzzle that is not found
\* yet: the board takes input, no penalty is running and the deadline has not
\* passed, so _handleMove gets to record the move.
CanPlayRequired ==
    /\ ui.hasSession /\ ui.boardAlive
    /\ ~ui.timeoutModal
    /\ currentPuzzleIndex < Len(puzzles)
    /\ ~isDelayActive /\ ~DeadlinePassed
    /\ \E m \in UserMoves : getMoveKey(m[1], m[2]) \in RequiredKeys \ foundMoves

\* The user plays such a target.
PlayRequired ==
    /\ CanPlayRequired
    /\ \E m \in UserMoves :
          /\ getMoveKey(m[1], m[2]) \in RequiredKeys \ foundMoves
          /\ Becomes(handleMove([Step("move") EXCEPT
                                    !.history.movedOn = @ \cup {currentPuzzleIndex},
                                    !.obs.orig = m[1], !.obs.dest = m[2]],
                                 m[1], m[2]))

\* A session without give-up in which the user only plays required targets
NextPlay ==
    \/ StartSession
    \/ PlayRequired
    \/ CloseTimeoutModal
    \/ Tick
    \/ \E t \in pending : FireTimeout(t)
    \/ Advance

\* Some tracked timeout is due and next in the browser's order.
CanFireTimeout ==
    \E t \in pending :
        /\ t.due <= now
        /\ \A d \in DueTimes : t.due <= d
        /\ \A u \in pending : (u.due = t.due /\ u.delay = t.delay) => t.id <= u.id

\* Weak fairness of StartSession, PlayRequired and FireTimeout, each with its
\* enabling condition written out and its steps told by the handler that
\* ran. (Every such step changes the state: it creates the session, records
\* a find or drops a timeout.)
StartSessionIsFair ==
    []<>(ui.hasSession) \/ []<><<obs'.op = "start">>_vars

PlayRequiredIsFair ==
    []<>(~CanPlayRequired) \/ []<><<obs'.op = "move">>_vars

FireTimeoutIsFair ==
    []<>(~CanFireTimeout)
       \/ []<><<obs'.op \in {"next", "resolve", "shape", "highlight"}>>_vars

\* The session is started, the user keeps playing required targets while
\* there is one, the clock keeps running and due callbacks run: weak fairness
\* of every action of NextPlay.
SpecPlay ==
    /\ Init /\ [][NextPlay]_vars
    /\ WF_vars(CloseTimeoutModal) /\ WF_vars(Tick) /\ WF_vars(Advance)
    /\ StartSessionIsFair /\ PlayRequiredIsFair /\ FireTimeoutIsFair

\* C36: with no time limit and no give-up, a user who keeps playing the
\* required targets of the live puzzle gets every puzzle of the session
\* counted as solved, whatever its target set, and the session reaches
\* finish().
C36_EveryPuzzleGetsSolved ==
    (config.timeLimit = 0) =>
        <>( Finished /\ history.solved = 0..(Len(puzzles) - 1) )

\* The session sits on a puzzle that requires nothing: no move is a required
\* target, nothing is pending, and the puzzle is not counted as solved.
C36_Witness ==
    /\ config.timeLimit = 0 /\ AwaitingMove
    /\ RequiredKeys = {} /\ pending = {}
    /\ currentPuzzleIndex \notin history.solved
    /\ ~CanPlayRequired /\ ~CanFireTimeout /\ WakeTimes = {}

\* When every puzzle of the session requires at least one target (the puzzle
\* with id 0 requires none in good-moves-only mode: each of its targets is a
\* bad move), the same user does get every puzzle solved and the session
\* finished.
C36_SolvedWhenSomethingIsRequired ==
    ( /\ config.timeLimit = 0
      /\ ~(config.goodMovesOnly /\ \E i \in 1..Len(puzzles) : puzzles[i].id = 0) ) =>
        <>( Finished /\ history.solved = 0..(Len(puzzles) - 1) )

\* Every per-category found counter has reached its total.
EveryCategoryFound(st) ==
    \A cat \in {"wChecks", "wCaptures", "bChecks", "bCaptures"} :
        st[cat].found = st[cat].total

\* Every puzzle of the session has been counted as solved.
EveryPuzzleSolved == history.solved = 0..(Len(puzzles) - 1)

\* C37: when finish() reports a session in which every puzzle was solved, the
\* accuracy is 100; and whenever every category's found counter equals its
\* total, totalMovesFound equals totalMovesAvailable, also for targets that
\* are a check and a capture at once.
C37_AllSolvedIsFullAccuracy ==
    /\ [][ (ui'.resultsShown > ui.resultsShown /\ EveryPuzzleSolved') =>
               ui'.results.accuracy.num = 100 * ui'.results.accuracy.den ]_vars
    /\ []( EveryCategoryFound(stats) =>
               stats.totalMovesFound = stats.totalMovesAvailable )

\* A session whose every puzzle was solved has finished, a target that is a
\* check and a capture at once among them, and the reported accuracy is
\* below 100.
C37_Witness ==
    /\ ui.resultsShown = 1 /\ EveryPuzzleSolved
    /\ EveryCategoryFound(stats)
    /\ stats.wChecks.found > 0 /\ stats.wCaptures.found > 0
    /\ ui.results.found < ui.results.available
    /\ ui.results.accuracy.num < 100 * ui.results.accuracy.den

\* The stages (from 0) whose list holds a move with the key
StagesOf(key) ==
    {i \in 0..(Len(STAGES) - 1) : key \in KeysOf(StageList(targets, STAGES[i + 1]))}

\* The step recorded a new find.
NewFind == obs'.op = "move" /\ obs'.key \in foundMoves' \ foundMoves

\* C38: in sequential mode a move is recorded as found only if it is a target
\* of a stage that no open stage precedes: a target of later stages only is
\* not recorded while an earlier stage has unfound required targets.
C38_StagesClearedInOrder ==
    [][ (config.sequentialMode /\ NewFind) =>
           \E i \in StagesOf(obs'.key) : i <= FirstOpenStage ]_vars

\* In sequential mode a capture that is no check was recorded as found while
\* the white-checks stage was open, and the session is still on that stage.
C38_Witness ==
    /\ config.sequentialMode /\ obs.op = "move" /\ obs.kind = "found"
    /\ StagesOf(obs.key) = {1} /\ obs.key \in foundMoves
    /\ 0 \in OpenStages /\ currentStageIndex = 0
    /\ stats.wCaptures.found = 1 /\ stats.wChecks.found = 0

\* A trainer for which no puzzle was solved before the session.
InitCount ==
    /\ now = 0
    /\ config \in Configs
    /\ puzzles \in PuzzleLists
    /\ previouslySolvedIds = {}
    /\ currentPuzzleIndex = 0
    /\ stats = ZeroStats
    /\ game = [pos |-> StartPos("START"), hist |-> <<>>]
    /\ foundMoves = {}
    /\ targets = EmptyTargets
    /\ currentStageIndex = 0
    /\ isDelayActive = FALSE
    /\ timers = {}
    /\ pending = {}
    /\ nextId = 1
    /\ sm = [timerInterval |-> NoInterval, sessionStartTime |-> 0, limitEndTime |-> 0,
             isPaused |-> FALSE, pauseStartTime |-> 0]
    /\ ui = [hasSession |-> FALSE, boardAlive |-> FALSE,
             taskIndicator |-> "hidden", timeoutModal |-> FALSE, shapes |-> FALSE,
             resultsShown |-> 0, saved |-> 0, markCalls |-> 0, marked |-> {},
             restarts |-> 0,
             results |-> [solved |-> 0, total |-> 0, found |-> 0, available |-> 0,
                         accuracy |-> [num |-> 0, den |-> 1], time |-> 0]]
    /\ obs = NoObs
    /\ history = [movedOn |-> {}, timedOut |-> {}, solved |-> {}]

\* The session of Next with a user who, besides the counted clicks, plays
\* required targets as long as there are any.
NextCount == Next \/ PlayRequired

SpecCount == InitCount /\ [][NextCount]_vars

\* The number of puzzles the session has loaded so far
LoadedSoFar ==
    IF ~ui.hasSession THEN 0
    ELSE IF currentPuzzleIndex + 1 <= Len(puzzles) THEN currentPuzzleIndex + 1
    ELSE Len(puzzles)

\* C39: solvedCount grows by one at a time and only for a puzzle that was
\* not counted before, so newPuzzlesSolved <= solvedCount <= the number of
\* puzzles loaded so far <= puzzles.length in every state.
C39_SolvedAtMostOncePerPuzzle ==
    /\ []( /\ stats.newPuzzlesSolved <= stats.solvedCount
            /\ stats.solvedCount <= LoadedSoFar
            /\ LoadedSoFar <= Len(puzzles) )
    /\ [][ stats'.solvedCount # stats.solvedCount =>
               /\ stats'.solvedCount = stats.solvedCount + 1
               /\ currentPuzzleIndex' = currentPuzzleIndex
               /\ currentPuzzleIndex \notin history.solved ]_vars

\* The move that solved the second puzzle of a session: both puzzles are
\* counted as solved, one of them as new.
C39_Witness ==
    /\ Len(puzzles) = 2 /\ stats.solvedCount = 2 /\ stats.newPuzzlesSolved = 1
    /\ currentPuzzleIndex = 1 /\ ui.boardAlive
    /\ obs.op = "move" /\ obs.solved
    /\ history.solved = {0, 1}

----------------------------------------------------------------------------
(* PuzzleManager.getPuzzles on its own: a library is loaded, puzzles are     *)
(* marked solved as time passes, and puzzles are requested with any          *)
(* difficulty and task count. The PuzzleManager and the progress store live  *)
(* outside the session; here obs holds them (loaded, library, solved), config *)
(* is the SessionConfig of the last request and puzzles its result.          *)

\* The clock of the progress store stops after this many milliseconds
MaxStamps == 2

\* markSolved counts the attempts of a puzzle up to this many
MaxAttempts == 2

\* The upper limit of taskCount in getPuzzles
MAX_TASKS == 100

\* A puzzle of puzzles.json; difficulty "" is a puzzle without the field.
LibPuzzle(id, difficulty) == [id |-> id, difficulty |-> difficulty]

\* The puzzles.json of the model
Library ==
    << LibPuzzle(1, "medium"), LibPuzzle(2, ""), LibPuzzle(3, "easy") >>

\* The ids a session can mark as solved
MarkableIds == {1, 2}

\* config.difficulty and config.taskCount of a request
Difficulties == {"all", "easy", "medium", "hard"}
TaskCounts == {0, 1, 2, 101}

\* p.difficulty || 'medium'
difficultyOf(p) == IF p.difficulty = "" THEN "medium" ELSE p.difficulty

\* A faulty limit without the lower bound.
clampCount_noFloor(taskCount) == IF taskCount > MAX_TASKS THEN MAX_TASKS ELSE taskCount

\* Math.max(1, Math.min(100, taskCount))
clampCount(taskCount) ==
    LET AtLeastOne(m) == IF m < 1 THEN 1 ELSE m
    IN AtLeastOne(IF taskCount > MAX_TASKS THEN MAX_TASKS ELSE taskCount)

\* array.slice(0, n) for n >= 0
slice(seq, n) == SubSeq(seq, 1, IF n < Len(seq) THEN n ELSE Len(seq))

\* new Date(solvedData[id]?.solvedAt || 0).getTime(): the ISO string written
\* by markSolved parses back to the millisecond it was written at.
solvedTime(solved, p) == IF p.id \in DOMAIN solved THEN solved[p.id].solvedAt ELSE 0

\* seen.sort((a, b) => aTime - bTime): a stable sort, oldest first
RECURSIVE sortSeen(_, _)
sortSeen(seen, solved) ==
    IF seen = <<>> THEN <<>>
    ELSE LET Placed(x, rest) ==
               SelectSeq(rest, LAMBDA y : solvedTime(solved, y) <= solvedTime(solved, x))
                 \o << x >>
                 \o SelectSeq(rest, LAMBDA y : solvedTime(solved, y) > solvedTime(solved, x))
         IN Placed(seen[Len(seen)], sortSeen(SubSeq(seen, 1, Len(seen) - 1), solved))

\* The orders shuffleArray can return
Shuffles(seq) ==
    { [i \in 1..Len(seq) |-> seq[f[i]]] :
        f \in {g \in [1..Len(seq) -> 1..Len(seq)] :
                 \A i, j \in 1..Len(seq) : i # j => g[i] # g[j]} }

\* The filtered puzzles that are not, or are, in getSolvedIds()
unseenOf(filtered, solved) == SelectSeq(filtered, LAMBDA p : p.id \notin DOMAIN solved)
seenOf(filtered, solved) == SelectSeq(filtered, LAMBDA p : p.id \in DOMAIN solved)

\* The filter of getPuzzles by difficulty
filterByDifficulty(library, difficulty) ==
    IF difficulty = "all" THEN library
    ELSE SelectSeq(library, LAMBDA p : difficultyOf(p) = difficulty)

\* getPuzzles(config) once loaded, shuffledUnseen being what shuffleArray
\* returned for the unseen puzzles
getPuzzles(library, solved, cfg, shuffledUnseen) ==
    LET Built(count, first, seen) ==
          IF Len(first) < count
          THEN first \o slice(sortSeen(seen, solved), count - Len(first))
          ELSE first
        Counted(count, filtered) ==
          Built(count, slice(shuffledUnseen, count), seenOf(filtered, solved))
    IN Counted(clampCount(cfg.taskCount), filterByDifficulty(library, cfg.difficulty))

\* What a step of this specification observed
PMObs(op) == [op |-> op, loaded |-> obs.loaded, library |-> obs.library,
              solved |-> obs.solved, threw |-> FALSE]

\* new PuzzleManager(), an empty progress store, no request yet
InitPuzzles ==
    /\ now = 0
    /\ config = [difficulty |-> "all", taskCount |-> 10]
    /\ puzzles = <<>>
    /\ previouslySolvedIds = {}
    /\ currentPuzzleIndex = 0
    /\ stats = ZeroStats
    /\ game = [pos |-> StartPos("START"), hist |-> <<>>]
    /\ foundMoves = {}
    /\ targets = EmptyTargets
    /\ currentStageIndex = 0
    /\ isDelayActive = FALSE
    /\ timers = {}
    /\ pending = {}
    /\ nextId = 1
    /\ sm = [timerInterval |-> NoInterval, sessionStartTime |-> 0, limitEndTime |-> 0,
             isPaused |-> FALSE, pauseStartTime |-> 0]
    /\ ui = [hasSession |-> FALSE, boardAlive |-> FALSE,
             taskIndicator |-> "hidden", timeoutModal |-> FALSE, shapes |-> FALSE,
             resultsShown |-> 0, saved |-> 0, markCalls |-> 0, marked |-> {},
             restarts |-> 0,
             results |-> [solved |-> 0, total |-> 0, found |-> 0, available |-> 0,
                         accuracy |-> [num |-> 0, den |-> 1], time |-> 0]]
    /\ obs = [op |-> "none", loaded |-> FALSE, library |-> <<>>,
              solved |-> << >>, threw |-> FALSE]
    /\ history = [movedOn |-> {}, timedOut |-> {}, solved |-> {}]

\* loadPuzzles(): the library is fetched.
PMLoadPuzzles ==
    /\ ~obs.loaded
    /\ Becomes([Cur EXCEPT !.obs = [PMObs("loadPuzzles") EXCEPT !.loaded = TRUE,
                                                                !.library = Library]])

\* A millisecond passes.
PMWait ==
    /\ now < MaxStamps
    /\ Becomes([Cur EXCEPT !.now = @ + 1, !.obs = PMObs("wait")])

\* puzzleProgress.markSolved(id): solvedAt is written by the first call only,
\* later calls count the attempt (lastAttempt, which nothing reads, is left out).
PMMarkSolved(id) ==
    /\ id \in DOMAIN obs.solved => obs.solved[id].attempts < MaxAttempts
    /\ Becomes([Cur EXCEPT !.obs =
          [PMObs("markSolved") EXCEPT !.solved =
              IF id \in DOMAIN obs.solved
              THEN [obs.solved EXCEPT ![id].attempts = @ + 1]
              ELSE [i \in DOMAIN obs.solved \cup {id} |->
                      IF i = id THEN [solvedAt |-> now, attempts |-> 1]
                      ELSE obs.solved[i]]]])

\* getPuzzles(config): throws before the library is loaded
PMGetPuzzles(cfg) ==
    IF ~obs.loaded
    THEN Becomes([Cur EXCEPT !.config = cfg,
                             !.obs = [PMObs("getPuzzles") EXCEPT !.threw = TRUE]])
    ELSE \E shuffledUnseen \in
             Shuffles(unseenOf(filterByDifficulty(obs.library, cfg.difficulty), obs.solved)) :
           Becomes([Cur EXCEPT !.config = cfg,
                               !.puzzles = getPuzzles(obs.library, obs.solved, cfg,
                                                      shuffledUnseen),
                               !.obs = PMObs("getPuzzles")])

NextPuzzles ==
    \/ PMLoadPuzzles
    \/ PMWait
    \/ \E id \in MarkableIds : PMMarkSolved(id)
    \/ \E d \in Difficulties, n \in TaskCounts :
          PMGetPuzzles([difficulty |-> d, taskCount |-> n])

SpecPuzzles == InitPuzzles /\ [][NextPuzzles]_vars

\* The library puzzles a request with this difficulty asks for
MatchingPuzzles(difficulty) ==
    { p \in Range(obs.library) :
        difficulty = "all" \/ (IF p.difficulty = "" THEN "medium" ELSE p.difficulty) = difficulty }

\* The time a puzzle was first marked solved
FirstSolved(p) == obs.solved[p.id].solvedAt

C40_ThrowsBeforeLoad ==
    /\ obs.op = "getPuzzles"
    /\ obs.threw
    /\ ~obs.loaded
====
